---------------------------- MODULE Spec2Model ----------------------------
(***************************************************************************)
(* A model of the scubaclub website: the per-language translation rows of  *)
(* dive clubs and dive locations, their slugs, and the suggestion workflow *)
(* of dive locations (website/models.py, website/forms.py,                 *)
(* website/views.py).                                                      *)
(*                                                                         *)
(* Text that the code processes character by character (names and slugs)   *)
(* is a sequence of one-character strings; text that the code only copies  *)
(* or tests for blankness is a string.                                     *)
(***************************************************************************)
EXTENDS Integers, Sequences, FiniteSets, TLC

(***************************************************************************)
(* Bounds of the model.                                                    *)
(***************************************************************************)
MaxClubs == 2

MaxLocations == 2

MaxSuggestions == 2

MaxAccounts == 3

(***************************************************************************)
(* Program constants.                                                      *)
(***************************************************************************)
\* models.SlugField without max_length: a varchar(50) column.
SlugMaxLength == 50

Langs == {"nl", "en"}

Users == {"root", "alice"}

\* User.is_superuser (management/commands/create_superuser.py).
Superusers == {"root"}

Anonymous == "anonymous"

Callers == Users \cup {Anonymous}

Methods == {"GET", "POST"}

ClubIds == 1..MaxClubs

LocationIds == 1..MaxLocations

SuggestionIds == 1..MaxSuggestions

AccountIds == 1..MaxAccounts

(***************************************************************************)
(* Text.                                                                   *)
(***************************************************************************)
UpperChars == <<"A","B","C","D","E","F","G","H","I","J","K","L","M",
                "N","O","P","Q","R","S","T","U","V","W","X","Y","Z">>

LowerChars == <<"a","b","c","d","e","f","g","h","i","j","k","l","m",
                "n","o","p","q","r","s","t","u","v","w","x","y","z">>

DigitChars == <<"0","1","2","3","4","5","6","7","8","9">>

Range(s) == {s[i] : i \in DOMAIN s}

\* str.lower() on one character.
Lower(c) ==
    IF \E i \in DOMAIN UpperChars : UpperChars[i] = c
    THEN LowerChars[CHOOSE i \in DOMAIN UpperChars : UpperChars[i] = c]
    ELSE c

\* The regular expression classes \w and \s, on ASCII text.
WordChars == Range(UpperChars) \cup Range(LowerChars) \cup Range(DigitChars) \cup {"_"}

SpaceChars == {" ", "\t", "\n"}

IsWord(c) == c \in WordChars

IsSpace(c) == c \in SpaceChars

RECURSIVE LStrip(_, _)
LStrip(s, drop) ==
    IF s # <<>> /\ Head(s) \in drop THEN LStrip(Tail(s), drop) ELSE s

RECURSIVE RStrip(_, _)
RStrip(s, drop) ==
    IF s # <<>> /\ s[Len(s)] \in drop THEN RStrip(SubSeq(s, 1, Len(s) - 1), drop) ELSE s

\* str.strip(): leading and trailing whitespace removed.
Strip(s) == RStrip(LStrip(s, SpaceChars), SpaceChars)

\* re.sub(r"[-\s]+", "-", value): every run of hyphens and whitespace
\* becomes one hyphen.
RECURSIVE CollapseRuns(_)
CollapseRuns(s) ==
    IF s = <<>> THEN <<>>
    ELSE IF Head(s) = "-" \/ IsSpace(Head(s))
         THEN <<"-">> \o CollapseRuns(LStrip(s, SpaceChars \cup {"-"}))
         ELSE <<Head(s)>> \o CollapseRuns(Tail(s))

\* django.utils.text.slugify on ASCII text: lower-case, drop what is not
\* a word character, whitespace or a hyphen, collapse the runs, and strip
\* hyphens and underscores from both ends.
SlugifyText(value) ==
    LET lowered == [i \in DOMAIN value |-> Lower(value[i])]
        kept    == SelectSeq(lowered, LAMBDA c : IsWord(c) \/ IsSpace(c) \/ c = "-")
    IN  RStrip(LStrip(CollapseRuns(kept), {"-", "_"}), {"-", "_"})

\* str(n) for a natural number.
RECURSIVE Digits(_)
Digits(n) ==
    IF n < 10 THEN <<DigitChars[n + 1]>>
    ELSE Digits(n \div 10) \o <<DigitChars[(n % 10) + 1]>>


(***************************************************************************)
(* The names that requests submit.                                         *)
(***************************************************************************)
NameDuikclubNoord == <<"D","u","i","k","c","l","u","b"," ","N","o","o","r","d">>

\* A name within the form's 255 characters whose slug is longer than the
\* slug column.
NameLong == [i \in 1..(SlugMaxLength + 1) |-> "a"]

NameInputs == {<<>>, <<" ">>, NameDuikclubNoord, NameLong}

\* The names of two dive locations.
NameZeeland == <<"Z","e","e","l","a","n","d">>

NameVinkeveen == <<"V","i","n","k","e","v","e","e","n">>

LocationNameInputs == {NameZeeland, NameVinkeveen, NameLong}

\* slugify of the submitted names, computed once; any other text is
\* slugified when it is met.
SlugifyOfInputs ==
    [n \in {Strip(x) : x \in NameInputs \cup LocationNameInputs} |-> SlugifyText(n)]

Slugify(value) ==
    IF value \in DOMAIN SlugifyOfInputs THEN SlugifyOfInputs[value] ELSE SlugifyText(value)

(***************************************************************************)
(* The state: the rows of the relational store and what the last request   *)
(* returned.                                                               *)
(***************************************************************************)
VARIABLES
    club,     \* DiveClub rows by id: created_by and the admins set
    clubTr,   \* DiveClubTranslation rows by (dive_club, language)
    loc,      \* DiveLocation rows by id
    locTr,    \* DiveLocationTranslation rows by (dive_location, language)
    sug,      \* DiveLocationSuggestion rows by id
    req,      \* the requests in flight that run step by step
    removing, \* the remove_admin requests in flight, by caller
    account,  \* the User rows that register saved, by primary key
    last      \* the last operation and its response

vars == <<club, clubTr, loc, locTr, sug, req, removing, account, last>>

\* An id that holds no row, and a (entity, language) pair without translation.
NoClub == [absent |-> TRUE]

NoRow == [absent |-> TRUE]

NoAccount == [absent |-> TRUE]

\* A DiveClubTranslation row.
ClubRow(name, description, slug) ==
    [name |-> name, description |-> description, slug |-> slug]

(***************************************************************************)
(* Slugs of club translations (forms.py, DiveClubForm._save_translations). *)
(***************************************************************************)
\* DiveClubTranslation.objects.filter(language=lang, slug=slug)
\*     .exclude(dive_club=dive_club).exists()
ClubSlugTaken_AnyLanguage(tr, dive_club, lang, slug) ==
    \E d \in ClubIds \ {dive_club}, l \in Langs :
        tr[d, l] # NoRow /\ tr[d, l].slug = slug

ClubSlugTaken(tr, dive_club, lang, slug) ==
    \E d \in ClubIds \ {dive_club} :
        tr[d, lang] # NoRow /\ tr[d, lang].slug = slug

\* The while loop of the uniqueness handling: slug is the candidate,
\* counter the next suffix.
RECURSIVE ClubSlugLoop(_, _, _, _, _, _)
ClubSlugLoop(tr, dive_club, lang, original_slug, slug, counter) ==
    IF ClubSlugTaken(tr, dive_club, lang, slug)
    THEN ClubSlugLoop(tr, dive_club, lang, original_slug,
                      original_slug \o <<"-">> \o Digits(counter), counter + 1)
    ELSE slug

\* original_slug = slug; counter = 1; while ...: ...
UniqueClubSlug(tr, dive_club, lang, original_slug) ==
    ClubSlugLoop(tr, dive_club, lang, original_slug, original_slug, 1)

\* What the store does with a row written by save(): the slug column is a
\* varchar(SlugMaxLength), and a longer value makes the statement fail.
SaveRaises(row) == Len(row.slug) > SlugMaxLength

\* DiveClub.get_slug_for_language: the slug, or <<>> for None.
ClubSlugForLanguage(tr, c, lang) ==
    IF tr[c, lang] # NoRow THEN tr[c, lang].slug ELSE <<>>

\* The Dutch block of _save_translations: the row is created when missing
\* (with an empty slug), the slug is computed and made unique, and the row
\* is saved; an exception is caught and leaves what get_or_create wrote.
SaveDutchTranslation(tr, dive_club, nl_name, nl_description) ==
    LET created  == tr[dive_club, "nl"] = NoRow
        tr1      == IF created
                    THEN [tr EXCEPT ![dive_club, "nl"] =
                                ClubRow(nl_name, nl_description, <<>>)]
                    ELSE tr
        original == IF nl_name # <<>> THEN Slugify(nl_name)
                    ELSE <<"c","l","u","b","-">> \o Digits(dive_club)
        row      == ClubRow(nl_name, nl_description,
                            UniqueClubSlug(tr1, dive_club, "nl", original))
    IN  IF SaveRaises(row) THEN tr1 ELSE [tr1 EXCEPT ![dive_club, "nl"] = row]

\* The English block: only when an English name is given.
SaveEnglishTranslation(tr, dive_club, en_name, en_description) ==
    LET created  == tr[dive_club, "en"] = NoRow
        tr1      == IF created
                    THEN [tr EXCEPT ![dive_club, "en"] =
                                ClubRow(en_name, en_description, <<>>)]
                    ELSE tr
        row      == ClubRow(en_name, en_description,
                            UniqueClubSlug(tr1, dive_club, "en", Slugify(en_name)))
    IN  IF en_name = <<>> THEN tr
        ELSE IF SaveRaises(row) THEN tr1
        ELSE [tr1 EXCEPT ![dive_club, "en"] = row]

\* _save_translations with one try around both blocks
SaveClubTranslations_OneTry(tr, dive_club, data) ==
    LET dutch == SaveDutchTranslation(tr, dive_club, Strip(data.name_nl),
                                      data.description_nl)
    IN  IF Len(Slugify(Strip(data.name_nl))) > SlugMaxLength THEN dutch
        ELSE SaveEnglishTranslation(dutch, dive_club, Strip(data.name_en),
                                    data.description_en)

\* DiveClubForm._save_translations: the Dutch block, then the English one.
\* data is the form's cleaned_data.
SaveClubTranslations(tr, dive_club, data) ==
    SaveEnglishTranslation(
        SaveDutchTranslation(tr, dive_club, Strip(data.name_nl), data.description_nl),
        dive_club, Strip(data.name_en), data.description_en)

\* DiveClubForm.__init__ and the fields' validation: the name of the
\* current language is required, and a CharField strips before it checks.
ClubFormIsValid(lang, data) ==
    /\ lang = "nl" => Strip(data.name_nl) # <<>>
    /\ lang = "en" => Strip(data.name_en) # <<>>

\* DiveClub.save: the creator is added to the admins.
DiveClubSave(row) == [row EXCEPT !.admins = @ \cup {row.created_by}]

\* request.user not in club.admins.all(), negated
IsClubAdmin_Anyone(row, user) == TRUE

IsClubAdmin(row, user) == user \in row.admins

(***************************************************************************)
(* What the requests submit.                                               *)
(***************************************************************************)
\* The descriptions are copied, never examined: one per language.
ClubFormInputs ==
    [name_nl : NameInputs, name_en : NameInputs,
     description_nl : {"Een duikclub"}, description_en : {"A dive club"}]

\* A request without form data (a GET).
NoClubForm ==
    [name_nl |-> <<>>, name_en |-> <<>>, description_nl |-> "", description_en |-> ""]

\* The form data of a request: only a POST that passes login_required
\* has its data read.
ClubFormOf(user, method) ==
    IF user # Anonymous /\ method = "POST" THEN ClubFormInputs ELSE {NoClubForm}

\* The users who fill in the form that creates a club; the others request
\* the page, or post it empty.
ClubCreators == {"root"}

CreateClubFormOf(user, method) ==
    IF user \in ClubCreators THEN ClubFormOf(user, method) ELSE {NoClubForm}

\* The slugs a URL can carry: those stored, and one that is not.
SlugUnknown == <<"o","n","b","e","k","e","n","d">>

ClubSlugInputs ==
    {clubTr[k].slug : k \in {j \in ClubIds \X Langs : clubTr[j] # NoRow}}
        \cup {SlugUnknown}

Response(op, response) == [op |-> op, response |-> response]

(***************************************************************************)
(* views.create_dive_club                                                  *)
(***************************************************************************)
CreateDiveClub(user, method, lang, data) ==
    LET id    == Cardinality({c \in ClubIds : club[c] # NoClub}) + 1
        saved == SaveClubTranslations(clubTr, id, data)
    IN
    /\ UNCHANGED <<loc, locTr, sug, req, removing, account>>
    /\ IF user = Anonymous
       THEN /\ last' = Response("create_dive_club", "302 login")
            /\ UNCHANGED <<club, clubTr>>
       ELSE IF method # "POST" \/ ~ClubFormIsValid(lang, data)
       THEN /\ last' = Response("create_dive_club", "200 form")
            /\ UNCHANGED <<club, clubTr>>
       ELSE /\ id \in ClubIds
            /\ club' = [club EXCEPT ![id] =
                            DiveClubSave([created_by |-> user, admins |-> {},
                                  members |-> {}, pending_members |-> {}])]
            /\ clubTr' = saved
            /\ last' = Response("create_dive_club",
                           IF ClubSlugForLanguage(saved, id, lang) # <<>>
                           THEN "302 club_detail" ELSE "302 dive_clubs")

(***************************************************************************)
(* views.edit_dive_club                                                    *)
(***************************************************************************)
EditDiveClub(user, method, lang, club_slug, data) ==
    LET found == {c \in ClubIds : /\ club[c] # NoClub
                                  /\ clubTr[c, lang] # NoRow
                                  /\ clubTr[c, lang].slug = club_slug}
        c     == CHOOSE c \in found : TRUE
        saved == SaveClubTranslations(clubTr, c, data)
    IN
    /\ UNCHANGED <<loc, locTr, sug, req, removing, account>>
    /\ IF user = Anonymous
       THEN /\ last' = Response("edit_dive_club", "302 login")
            /\ UNCHANGED <<club, clubTr>>
       ELSE IF found = {}
       THEN /\ last' = Response("edit_dive_club", "404")
            /\ UNCHANGED <<club, clubTr>>
       ELSE IF Cardinality(found) > 1
       THEN \* DiveClubTranslation.objects.get raises MultipleObjectsReturned
            /\ last' = Response("edit_dive_club", "500")
            /\ UNCHANGED <<club, clubTr>>
       ELSE IF ~IsClubAdmin(club[c], user)
       THEN /\ last' = Response("edit_dive_club", "403")
            /\ UNCHANGED <<club, clubTr>>
       ELSE IF method # "POST" \/ ~ClubFormIsValid(lang, data)
       THEN /\ last' = Response("edit_dive_club", "200 form")
            /\ UNCHANGED <<club, clubTr>>
       ELSE /\ club' = [club EXCEPT ![c] = DiveClubSave(@)]
            /\ clubTr' = saved
            /\ last' = Response("edit_dive_club",
                           IF ClubSlugForLanguage(saved, c, lang) # <<>>
                           THEN "302 club_detail" ELSE "302 dive_clubs")

(***************************************************************************)
(* Membership of a club (views.py): members, admins and pending_members    *)
(* are sets of users.  Each view loads the club, refuses a caller who is   *)
(* no admin of it (request_join_club excepted), loads the target user,     *)
(* changes the sets, and redirects to the club's page in the current       *)
(* language, or to the list of clubs when the club has no slug in it.      *)
(***************************************************************************)
\* A user id that get_object_or_404(User, pk=user_id) does not find.
UserUnknown == "nobody"

UserIds == Users \cup {UserUnknown}

\* The redirect that ends the membership views.
ClubRedirect(c, lang) ==
    IF ClubSlugForLanguage(clubTr, c, lang) # <<>>
    THEN "302 club_detail" ELSE "302 dive_clubs"

\* approve_member: a pending user becomes a member.
ApprovedMember_StaysPending(row, user) ==
    IF user \in row.pending_members
    THEN [row EXCEPT !.members = @ \cup {user}]
    ELSE row

ApprovedMember(row, user) ==
    IF user \in row.pending_members
    THEN [row EXCEPT !.pending_members = @ \ {user}, !.members = @ \cup {user}]
    ELSE row

\* reject_member: a pending user is pending no more.
RejectedMember(row, user) ==
    IF user \in row.pending_members
    THEN [row EXCEPT !.pending_members = @ \ {user}]
    ELSE row

\* remove_member
RemovedMember(row, user) ==
    IF user \in row.members
    THEN [row EXCEPT !.members = @ \ {user}]
    ELSE row

\* promote_to_admin: a member who is no admin becomes one.
PromotedToAdmin_NoMemberCheck(row, user) ==
    IF user \notin row.admins
    THEN [row EXCEPT !.admins = @ \cup {user}]
    ELSE row

PromotedToAdmin(row, user) ==
    IF user \in row.members /\ user \notin row.admins
    THEN [row EXCEPT !.admins = @ \cup {user}]
    ELSE row

\* remove_admin: an admin is removed unless the club has no other.
RemovedAdmin_NoCount(row, user) ==
    IF user \in row.admins
    THEN [row EXCEPT !.admins = @ \ {user}]
    ELSE row

RemovedAdmin(row, user) ==
    IF user \in row.admins
    THEN IF Cardinality(row.admins) <= 1
         THEN row
         ELSE [row EXCEPT !.admins = @ \ {user}]
    ELSE row

\* views.request_join_club
RequestJoinClub(user, method, lang, club_id) ==
    /\ UNCHANGED <<clubTr, loc, locTr, sug, req, removing, account>>
    /\ IF user = Anonymous
       THEN /\ last' = Response("request_join_club", "302 login")
            /\ UNCHANGED club
       ELSE IF club[club_id] = NoClub
       THEN /\ last' = Response("request_join_club", "404")
            /\ UNCHANGED club
       ELSE /\ club' = IF method = "POST"
                       THEN [club EXCEPT ![club_id].pending_members = @ \cup {user}]
                       ELSE club
            /\ last' = Response("request_join_club", ClubRedirect(club_id, lang))

\* views.approve_member
ApproveMember(user, method, lang, club_id, user_id) ==
    /\ UNCHANGED <<clubTr, loc, locTr, sug, req, removing, account>>
    /\ IF user = Anonymous
       THEN /\ last' = Response("approve_member", "302 login")
            /\ UNCHANGED club
       ELSE IF club[club_id] = NoClub
       THEN /\ last' = Response("approve_member", "404")
            /\ UNCHANGED club
       ELSE IF ~IsClubAdmin(club[club_id], user)
       THEN /\ last' = Response("approve_member", "403")
            /\ UNCHANGED club
       ELSE IF user_id \notin Users
       THEN /\ last' = Response("approve_member", "404")
            /\ UNCHANGED club
       ELSE /\ club' = [club EXCEPT ![club_id] = ApprovedMember(@, user_id)]
            /\ last' = Response("approve_member", ClubRedirect(club_id, lang))

\* views.reject_member
RejectMember(user, method, lang, club_id, user_id) ==
    /\ UNCHANGED <<clubTr, loc, locTr, sug, req, removing, account>>
    /\ IF user = Anonymous
       THEN /\ last' = Response("reject_member", "302 login")
            /\ UNCHANGED club
       ELSE IF club[club_id] = NoClub
       THEN /\ last' = Response("reject_member", "404")
            /\ UNCHANGED club
       ELSE IF ~IsClubAdmin(club[club_id], user)
       THEN /\ last' = Response("reject_member", "403")
            /\ UNCHANGED club
       ELSE IF user_id \notin Users
       THEN /\ last' = Response("reject_member", "404")
            /\ UNCHANGED club
       ELSE /\ club' = [club EXCEPT ![club_id] = RejectedMember(@, user_id)]
            /\ last' = Response("reject_member", ClubRedirect(club_id, lang))

\* views.remove_member
RemoveMember(user, method, lang, club_id, user_id) ==
    /\ UNCHANGED <<clubTr, loc, locTr, sug, req, removing, account>>
    /\ IF user = Anonymous
       THEN /\ last' = Response("remove_member", "302 login")
            /\ UNCHANGED club
       ELSE IF club[club_id] = NoClub
       THEN /\ last' = Response("remove_member", "404")
            /\ UNCHANGED club
       ELSE IF ~IsClubAdmin(club[club_id], user)
       THEN /\ last' = Response("remove_member", "403")
            /\ UNCHANGED club
       ELSE IF user_id \notin Users
       THEN /\ last' = Response("remove_member", "404")
            /\ UNCHANGED club
       ELSE /\ club' = [club EXCEPT ![club_id] = RemovedMember(@, user_id)]
            /\ last' = Response("remove_member", ClubRedirect(club_id, lang))

\* views.promote_to_admin
PromoteToAdmin(user, method, lang, club_id, user_id) ==
    /\ UNCHANGED <<clubTr, loc, locTr, sug, req, removing, account>>
    /\ IF user = Anonymous
       THEN /\ last' = Response("promote_to_admin", "302 login")
            /\ UNCHANGED club
       ELSE IF club[club_id] = NoClub
       THEN /\ last' = Response("promote_to_admin", "404")
            /\ UNCHANGED club
       ELSE IF ~IsClubAdmin(club[club_id], user)
       THEN /\ last' = Response("promote_to_admin", "403")
            /\ UNCHANGED club
       ELSE IF user_id \notin Users
       THEN /\ last' = Response("promote_to_admin", "404")
            /\ UNCHANGED club
       ELSE /\ club' = [club EXCEPT ![club_id] = PromotedToAdmin(@, user_id)]
            /\ last' = Response("promote_to_admin", ClubRedirect(club_id, lang))

\* views.remove_admin
RemoveAdmin(user, method, lang, club_id, user_id) ==
    /\ UNCHANGED <<clubTr, loc, locTr, sug, req, removing, account>>
    /\ IF user = Anonymous
       THEN /\ last' = Response("remove_admin", "302 login")
            /\ UNCHANGED club
       ELSE IF club[club_id] = NoClub
       THEN /\ last' = Response("remove_admin", "404")
            /\ UNCHANGED club
       ELSE IF ~IsClubAdmin(club[club_id], user)
       THEN /\ last' = Response("remove_admin", "403")
            /\ UNCHANGED club
       ELSE IF user_id \notin Users
       THEN /\ last' = Response("remove_admin", "404")
            /\ UNCHANGED club
       ELSE /\ club' = [club EXCEPT ![club_id] = RemovedAdmin(@, user_id)]
            /\ last' = Response("remove_admin", ClubRedirect(club_id, lang))

(***************************************************************************)
(* Dive locations and their suggestions (models.py).                       *)
(***************************************************************************)
NoLocation == [absent |-> TRUE]

NoSuggestion == [absent |-> TRUE]

\* None, for a country, a latitude or a longitude.
None == "None"

\* The translated text fields of a location besides its name.
TextFields ==
    {"description", "dangers", "nicknames", "address", "parking", "sight",
     "max_depth", "bottom_type", "type_of_water"}

\* A DiveLocationTranslation row; text holds the fields of TextFields.
LocationRow(name, text, slug) == [name |-> name, text |-> text, slug |-> slug]

\* f"Location {id}"
LocationPlaceholder(id) == <<"L","o","c","a","t","i","o","n"," ">> \o Digits(id)

\* DiveLocationTranslation.objects.filter(language=lang, slug=slug)
\*     .exclude(dive_location=location).exists()
LocationSlugTaken(tr, location, lang, slug) ==
    \E d \in LocationIds \ {location} :
        tr[d, lang] # NoRow /\ tr[d, lang].slug = slug

RECURSIVE LocationSlugLoop(_, _, _, _, _, _)
LocationSlugLoop(tr, location, lang, original_slug, slug, counter) ==
    IF LocationSlugTaken(tr, location, lang, slug)
    THEN LocationSlugLoop(tr, location, lang, original_slug,
                          original_slug \o <<"-">> \o Digits(counter), counter + 1)
    ELSE slug

UniqueLocationSlug(tr, location, lang, original_slug) ==
    LocationSlugLoop(tr, location, lang, original_slug, original_slug, 1)

\* The non-translatable fields after lines 268-274 of apply_changes.
MergedLocation(location, s) ==
    [location EXCEPT
        !.country   = IF s.suggested_country # None THEN s.suggested_country ELSE @,
        !.latitude  = IF s.suggested_latitude # None THEN s.suggested_latitude ELSE @,
        !.longitude = IF s.suggested_longitude # None THEN s.suggested_longitude ELSE @]

\* The translation in memory after get_or_create and the "if not created"
\* block: row is the stored translation, or NoRow when it is created.
MergedTranslation(row, s) ==
    IF row = NoRow
    THEN LocationRow(IF s.suggested_name # <<>> THEN s.suggested_name
                     ELSE LocationPlaceholder(s.original_location),
                     s.suggested_text, <<>>)
    ELSE LocationRow(IF s.suggested_name # <<>> THEN s.suggested_name ELSE row.name,
                     [f \in TextFields |-> IF s.suggested_text[f] # ""
                                           THEN s.suggested_text[f] ELSE row.text[f]],
                     row.slug)

\* The store after apply_changes ran on an approved suggestion s, and
\* whether translation.save() raised: nothing in apply_changes catches it.
ApplyApproved(locations, tr, s) ==
    LET l      == s.original_location
        lang   == s.target_language
        merged == MergedTranslation(tr[l, lang], s)
        tr1    == IF tr[l, lang] = NoRow
                  THEN [tr EXCEPT ![l, lang] = merged]
                  ELSE tr
        row    == IF merged.name # <<>>
                  THEN [merged EXCEPT !.slug =
                            UniqueLocationSlug(tr1, l, lang, Slugify(merged.name))]
                  ELSE merged
    IN  [loc    |-> [locations EXCEPT ![l] = MergedLocation(@, s)],
         locTr  |-> IF SaveRaises(row) THEN tr1 ELSE [tr1 EXCEPT ![l, lang] = row],
         raised |-> SaveRaises(row)]

ApplyChanges_AnyStatus(locations, tr, s) == ApplyApproved(locations, tr, s)

\* DiveLocationSuggestion.apply_changes
ApplyChanges(locations, tr, s) ==
    IF s.status = "approved"
    THEN ApplyApproved(locations, tr, s)
    ELSE [loc |-> locations, locTr |-> tr, raised |-> FALSE]

\* The suggestion of a primary key that get_object_or_404 finds.
SuggestionExists(s) == sug[s] # NoSuggestion /\ ~sug[s].deleted

\* review_location_suggestions: the suggestions it lists.
PendingSuggestions == {s \in SuggestionIds : SuggestionExists(s) /\ sug[s].status = "pending"}

(***************************************************************************)
(* What the location and suggestion forms submit.                          *)
(***************************************************************************)
\* The text fields that SuggestFirst fills; SuggestSecond fills the others.
FirstFields == {"description", "nicknames", "parking", "max_depth", "type_of_water"}

SuggestFirst ==
    [suggested_name      |-> NameZeeland,
     suggested_text      |-> [f \in TextFields |-> IF f \in FirstFields THEN "first" ELSE ""],
     suggested_country   |-> "NLD",
     suggested_latitude  |-> "51.5",
     suggested_longitude |-> None]

SuggestSecond ==
    [suggested_name      |-> <<>>,
     suggested_text      |-> [f \in TextFields |-> IF f \in FirstFields THEN "" ELSE "second"],
     suggested_country   |-> None,
     suggested_latitude  |-> None,
     suggested_longitude |-> "3.9"]

SuggestAll ==
    [suggested_name      |-> NameVinkeveen,
     suggested_text      |-> [f \in TextFields |-> "all"],
     suggested_country   |-> "BEL",
     suggested_latitude  |-> "52.2",
     suggested_longitude |-> "4.9"]

\* A suggested name whose slug does not fit the slug column.
SuggestLong ==
    [suggested_name      |-> NameLong,
     suggested_text      |-> [f \in TextFields |-> ""],
     suggested_country   |-> None,
     suggested_latitude  |-> None,
     suggested_longitude |-> None]

SuggestionInputs == {SuggestFirst, SuggestSecond, SuggestAll, SuggestLong}

\* The users who fill in the forms of locations and suggestions.
LocationCreators == {"alice"}

\* country, latitude, longitude and the two names of a DiveLocationForm.
LocationFormInputs ==
    {[country |-> "DEU", latitude |-> "50.1", longitude |-> "8.7",
      name_nl |-> NameZeeland, name_en |-> NameZeeland]}

NoLocationForm ==
    [country |-> None, latitude |-> None, longitude |-> None,
     name_nl |-> <<>>, name_en |-> <<>>]

LocationFormOf(user, method) ==
    IF user \in LocationCreators /\ method = "POST"
    THEN LocationFormInputs ELSE {NoLocationForm}

\* DiveLocationForm.__init__ and clean: the name of the current language
\* is required.
LocationFormIsValid(lang, data) ==
    /\ lang = "nl" => Strip(data.name_nl) # <<>>
    /\ lang = "en" => Strip(data.name_en) # <<>>

(***************************************************************************)
(* views.create_dive_location: the form is saved with commit=False, and    *)
(* the view saves the location alone.                                      *)
(***************************************************************************)
CreateDiveLocation(user, method, lang, data) ==
    LET id == Cardinality({l \in LocationIds : loc[l] # NoLocation}) + 1
    IN
    /\ UNCHANGED <<club, clubTr, locTr, sug, req, removing, account>>
    /\ IF user = Anonymous
       THEN /\ last' = Response("create_dive_location", "302 login")
            /\ UNCHANGED loc
       ELSE IF method # "POST" \/ ~LocationFormIsValid(lang, data)
       THEN /\ last' = Response("create_dive_location", "200 form")
            /\ UNCHANGED loc
       ELSE /\ id \in LocationIds
            /\ loc' = [loc EXCEPT ![id] =
                          [country |-> data.country, latitude |-> data.latitude,
                           longitude |-> data.longitude, language |-> lang,
                           created_by |-> user]]
            /\ last' = Response("create_dive_location", "302 dive_locations")

(***************************************************************************)
(* views.suggest_location_edit                                             *)
(***************************************************************************)
SuggestLocationEdit(user, method, location_id, target_language, data) ==
    LET id == Cardinality({s \in SuggestionIds : sug[s] # NoSuggestion}) + 1
    IN
    /\ UNCHANGED <<club, clubTr, loc, locTr, req, removing, account>>
    /\ IF user = Anonymous
       THEN /\ last' = Response("suggest_location_edit", "302 login")
            /\ UNCHANGED sug
       ELSE IF loc[location_id] = NoLocation
       THEN /\ last' = Response("suggest_location_edit", "404")
            /\ UNCHANGED sug
       ELSE IF method # "POST"
       THEN \* the initial values read location.name, which a DiveLocation
            \* does not have
            /\ last' = Response("suggest_location_edit", "500")
            /\ UNCHANGED sug
       ELSE /\ id \in SuggestionIds
            /\ sug' = [sug EXCEPT ![id] =
                          [original_location   |-> location_id,
                           target_language     |-> target_language,
                           suggested_by        |-> user,
                           suggested_name      |-> data.suggested_name,
                           suggested_text      |-> data.suggested_text,
                           suggested_country   |-> data.suggested_country,
                           suggested_latitude  |-> data.suggested_latitude,
                           suggested_longitude |-> data.suggested_longitude,
                           status              |-> "pending",
                           deleted             |-> FALSE]]
            /\ last' = Response("suggest_location_edit", "302 location_detail")

(***************************************************************************)
(* views.review_location_suggestions                                       *)
(***************************************************************************)
ReviewLocationSuggestions(user) ==
    /\ UNCHANGED <<club, clubTr, loc, locTr, sug, req, removing, account>>
    /\ last' = Response("review_location_suggestions",
                   IF user = Anonymous THEN "302 login"
                   ELSE IF user \notin Superusers THEN "403"
                   ELSE "200 suggestions")

(***************************************************************************)
(* views.approve_location_suggestion: the status is set on the instance,   *)
(* the changes are applied and the row is deleted.  A deleted suggestion   *)
(* keeps, in sug, the values its instance had when it was deleted.         *)
(***************************************************************************)
ApproveLocationSuggestion_NoSuperuserCheck(user, method, suggestion_id) ==
    LET approved == [sug[suggestion_id] EXCEPT !.status = "approved"]
        applied  == ApplyChanges(loc, locTr, approved)
    IN
    /\ UNCHANGED <<club, clubTr, req, removing, account>>
    /\ IF user = Anonymous
       THEN /\ last' = Response("approve_location_suggestion", "302 login")
            /\ UNCHANGED <<loc, locTr, sug>>
       ELSE IF ~SuggestionExists(suggestion_id)
       THEN /\ last' = Response("approve_location_suggestion", "404")
            /\ UNCHANGED <<loc, locTr, sug>>
       ELSE /\ loc' = applied.loc
            /\ locTr' = applied.locTr
            /\ sug' = [sug EXCEPT ![suggestion_id] = [approved EXCEPT !.deleted = TRUE]]
            /\ last' = Response("approve_location_suggestion",
                                "302 review_location_suggestions")

ApproveLocationSuggestion_NoDelete(user, method, suggestion_id) ==
    LET approved == [sug[suggestion_id] EXCEPT !.status = "approved"]
        applied  == ApplyChanges(loc, locTr, approved)
    IN
    /\ UNCHANGED <<club, clubTr, req, removing, account>>
    /\ IF user = Anonymous
       THEN /\ last' = Response("approve_location_suggestion", "302 login")
            /\ UNCHANGED <<loc, locTr, sug>>
       ELSE IF user \notin Superusers
       THEN /\ last' = Response("approve_location_suggestion", "403")
            /\ UNCHANGED <<loc, locTr, sug>>
       ELSE IF ~SuggestionExists(suggestion_id)
       THEN /\ last' = Response("approve_location_suggestion", "404")
            /\ UNCHANGED <<loc, locTr, sug>>
       ELSE /\ loc' = applied.loc
            /\ locTr' = applied.locTr
            /\ sug' = [sug EXCEPT ![suggestion_id] = approved]
            /\ last' = Response("approve_location_suggestion",
                                "302 review_location_suggestions")

ApproveLocationSuggestion(user, method, suggestion_id) ==
    LET approved == [sug[suggestion_id] EXCEPT !.status = "approved"]
        applied  == ApplyChanges(loc, locTr, approved)
    IN
    /\ UNCHANGED <<club, clubTr, req, removing, account>>
    /\ IF user = Anonymous
       THEN /\ last' = Response("approve_location_suggestion", "302 login")
            /\ UNCHANGED <<loc, locTr, sug>>
       ELSE IF user \notin Superusers
       THEN /\ last' = Response("approve_location_suggestion", "403")
            /\ UNCHANGED <<loc, locTr, sug>>
       ELSE IF ~SuggestionExists(suggestion_id)
       THEN /\ last' = Response("approve_location_suggestion", "404")
            /\ UNCHANGED <<loc, locTr, sug>>
       ELSE /\ loc' = applied.loc
            /\ locTr' = applied.locTr
            /\ IF applied.raised
               THEN \* the exception leaves the view before suggestion.delete()
                    /\ UNCHANGED sug
                    /\ last' = Response("approve_location_suggestion", "500")
               ELSE /\ sug' = [sug EXCEPT ![suggestion_id] =
                                  [approved EXCEPT !.deleted = TRUE]]
                    /\ last' = Response("approve_location_suggestion",
                                        "302 review_location_suggestions")

(***************************************************************************)
(* views.reject_location_suggestion                                        *)
(***************************************************************************)
RejectLocationSuggestion(user, method, suggestion_id) ==
    /\ UNCHANGED <<club, clubTr, loc, locTr, req, removing, account>>
    /\ IF user = Anonymous
       THEN /\ last' = Response("reject_location_suggestion", "302 login")
            /\ UNCHANGED sug
       ELSE IF user \notin Superusers
       THEN /\ last' = Response("reject_location_suggestion", "403")
            /\ UNCHANGED sug
       ELSE IF ~SuggestionExists(suggestion_id)
       THEN /\ last' = Response("reject_location_suggestion", "404")
            /\ UNCHANGED sug
       ELSE /\ sug' = [sug EXCEPT ![suggestion_id].status = "rejected"]
            /\ last' = Response("reject_location_suggestion",
                                "302 review_location_suggestions")

(***************************************************************************)
(* DiveLocationSuggestion.apply_changes called on a stored suggestion, as  *)
(* it was loaded.                                                          *)
(***************************************************************************)
CallApplyChanges(suggestion_id) ==
    LET applied == ApplyChanges(loc, locTr, sug[suggestion_id])
    IN
    /\ SuggestionExists(suggestion_id)
    /\ loc' = applied.loc
    /\ locTr' = applied.locTr
    /\ last' = Response("apply_changes", IF applied.raised THEN "raised" ELSE "None")
    /\ UNCHANGED <<club, clubTr, sug, req, removing, account>>

(***************************************************************************)
(* create_dive_club as the statements that reach the store, one at a time, *)
(* so that requests for different clubs interleave: club.save(), then for  *)
(* each language block of _save_translations the get_or_create, each       *)
(* exists() query of the while loop, and translation.save().  req[c] is    *)
(* the request that created club c: its position, the block it is in, the  *)
(* form data and the translation instance it holds in memory.              *)
(***************************************************************************)
NoRequest == [absent |-> TRUE]

\* The forms of the requests that run step by step.
ConcurrentFormInputs ==
    [name_nl : {NameDuikclubNoord}, name_en : {<<>>, NameDuikclubNoord},
     description_nl : {"Een duikclub"}, description_en : {"A dive club"}]

\* cleaned_data.get('name_<lang>', '').strip()
BlockName(data, lang) ==
    IF lang = "nl" THEN Strip(data.name_nl) ELSE Strip(data.name_en)

BlockDescription(data, lang) ==
    IF lang = "nl" THEN data.description_nl ELSE data.description_en

\* views.create_dive_club up to club.save(); _save_translations starts.
BeginCreateDiveClub(user, lang, data) ==
    LET id == Cardinality({c \in ClubIds : club[c] # NoClub}) + 1
    IN
    /\ user # Anonymous
    /\ ClubFormIsValid(lang, data)
    /\ id \in ClubIds
    /\ club' = [club EXCEPT ![id] =
                    DiveClubSave([created_by |-> user, admins |-> {},
                                  members |-> {}, pending_members |-> {}])]
    /\ req' = [req EXCEPT ![id] =
                  [pc |-> "get_or_create", current_lang |-> lang, block |-> "nl",
                   data |-> data, translation |-> NoRow,
                   original_slug |-> <<>>, counter |-> 1]]
    /\ UNCHANGED <<clubTr, loc, locTr, sug, removing, account, last>>

\* get_or_create of the block's language, and the slug computed from the
\* instance's name; original_slug = slug; counter = 1.
GetOrCreateTranslation(c) ==
    LET r           == req[c]
        name        == BlockName(r.data, r.block)
        description == BlockDescription(r.data, r.block)
        slug        == IF r.block = "en" \/ name # <<>> THEN Slugify(name)
                       ELSE <<"c","l","u","b","-">> \o Digits(c)
    IN
    /\ req[c] # NoRequest
    /\ r.pc = "get_or_create"
    /\ clubTr' = IF clubTr[c, r.block] = NoRow
                 THEN [clubTr EXCEPT ![c, r.block] = ClubRow(name, description, <<>>)]
                 ELSE clubTr
    /\ req' = [req EXCEPT ![c] =
                  [r EXCEPT !.pc = "exists",
                            !.translation = ClubRow(name, description, slug),
                            !.original_slug = slug,
                            !.counter = 1]]
    /\ UNCHANGED <<club, loc, locTr, sug, removing, account, last>>

\* One evaluation of the while condition, and the body when it holds.
SlugExistsQuery(c) ==
    LET r == req[c]
    IN
    /\ req[c] # NoRequest
    /\ r.pc = "exists"
    /\ req' = [req EXCEPT ![c] =
                  IF ClubSlugTaken(clubTr, c, r.block, r.translation.slug)
                  THEN [r EXCEPT !.translation.slug =
                                     r.original_slug \o <<"-">> \o Digits(r.counter),
                                 !.counter = r.counter + 1]
                  ELSE [r EXCEPT !.pc = "save"]]
    /\ UNCHANGED <<club, clubTr, loc, locTr, sug, removing, account, last>>

\* translation.save(), then the English block when an English name was
\* given, or the redirect of the view.
SaveTranslation(c) ==
    LET r     == req[c]
        saved == IF SaveRaises(r.translation) THEN clubTr
                 ELSE [clubTr EXCEPT ![c, r.block] = r.translation]
    IN
    /\ req[c] # NoRequest
    /\ r.pc = "save"
    /\ clubTr' = saved
    /\ IF r.block = "nl" /\ BlockName(r.data, "en") # <<>>
       THEN /\ req' = [req EXCEPT ![c] = [r EXCEPT !.pc = "get_or_create",
                                                   !.block = "en"]]
            /\ UNCHANGED last
       ELSE /\ req' = [req EXCEPT ![c] = [r EXCEPT !.pc = "done"]]
            /\ last' = Response("create_dive_club",
                           IF ClubSlugForLanguage(saved, c, r.current_lang) # <<>>
                           THEN "302 club_detail" ELSE "302 dive_clubs")
    /\ UNCHANGED <<club, loc, locTr, sug, removing, account>>

(***************************************************************************)
(* remove_admin statement by statement.  The view runs outside any         *)
(* transaction: the membership test of the caller, the membership test of  *)
(* the target, admins.count() and admins.remove() are separate statements, *)
(* and the statements of two requests interleave.  removing[user] holds    *)
(* the request of caller user and the statement it runs next.              *)
(***************************************************************************)
\* get_object_or_404(DiveClub), the caller's admin test, get_object_or_404(User)
BeginRemoveAdmin(user, lang, club_id, user_id) ==
    /\ removing[user] = NoRequest
    /\ UNCHANGED <<club, clubTr, loc, locTr, sug, req, account>>
    /\ IF club[club_id] = NoClub
       THEN /\ last' = Response("remove_admin", "404")
            /\ UNCHANGED removing
       ELSE IF ~IsClubAdmin(club[club_id], user)
       THEN /\ last' = Response("remove_admin", "403")
            /\ UNCHANGED removing
       ELSE IF user_id \notin Users
       THEN /\ last' = Response("remove_admin", "404")
            /\ UNCHANGED removing
       ELSE /\ removing' = [removing EXCEPT ![user] =
                               [club_id |-> club_id, user_id |-> user_id,
                                current_lang |-> lang, pc |-> "in_admins"]]
            /\ UNCHANGED last

\* if user in club.admins.all()
TargetInAdminsQuery(user) ==
    LET r == removing[user] IN
    /\ removing[user] # NoRequest
    /\ r.pc = "in_admins"
    /\ UNCHANGED <<club, clubTr, loc, locTr, sug, req, account>>
    /\ IF r.user_id \in club[r.club_id].admins
       THEN /\ removing' = [removing EXCEPT ![user] = [r EXCEPT !.pc = "count"]]
            /\ UNCHANGED last
       ELSE /\ removing' = [removing EXCEPT ![user] = NoRequest]
            /\ last' = Response("remove_admin",
                                ClubRedirect(r.club_id, r.current_lang))

\* if club.admins.count() <= 1
AdminsCountQuery(user) ==
    LET r == removing[user] IN
    /\ removing[user] # NoRequest
    /\ r.pc = "count"
    /\ UNCHANGED <<club, clubTr, loc, locTr, sug, req, account>>
    /\ IF Cardinality(club[r.club_id].admins) <= 1
       THEN /\ removing' = [removing EXCEPT ![user] = NoRequest]
            /\ last' = Response("remove_admin",
                                ClubRedirect(r.club_id, r.current_lang))
       ELSE /\ removing' = [removing EXCEPT ![user] = [r EXCEPT !.pc = "remove"]]
            /\ UNCHANGED last

\* club.admins.remove(user), and the redirect
AdminsRemove(user) ==
    LET r == removing[user] IN
    /\ removing[user] # NoRequest
    /\ r.pc = "remove"
    /\ club' = [club EXCEPT ![r.club_id].admins = @ \ {r.user_id}]
    /\ removing' = [removing EXCEPT ![user] = NoRequest]
    /\ last' = Response("remove_admin", ClubRedirect(r.club_id, r.current_lang))
    /\ UNCHANGED <<clubTr, loc, locTr, sug, req, account>>

(***************************************************************************)
(* The translated name and description of a club and of a location         *)
(* (models.py, get_name_for_language and get_description_for_language).    *)
(***************************************************************************)
\* "Unnamed Club"
UnnamedClub == <<"U","n","n","a","m","e","d"," ","C","l","u","b">>

\* DiveClub.get_name_for_language without the fallback to Dutch
ClubNameForLanguage_NoFallback(tr, c, lang_code) ==
    IF tr[c, lang_code] # NoRow THEN tr[c, lang_code].name ELSE UnnamedClub

\* DiveClub.get_name_for_language
ClubNameForLanguage(tr, c, lang_code) ==
    IF tr[c, lang_code] # NoRow THEN tr[c, lang_code].name
    ELSE IF tr[c, "nl"] # NoRow THEN tr[c, "nl"].name
    ELSE UnnamedClub

\* DiveClub.get_description_for_language
ClubDescriptionForLanguage(tr, c, lang_code) ==
    IF tr[c, lang_code] # NoRow THEN tr[c, lang_code].description
    ELSE IF tr[c, "nl"] # NoRow THEN tr[c, "nl"].description
    ELSE ""

\* DiveLocation.get_name_for_language
LocationNameForLanguage(tr, l, lang_code) ==
    IF tr[l, lang_code] # NoRow THEN tr[l, lang_code].name
    ELSE IF tr[l, "nl"] # NoRow THEN tr[l, "nl"].name
    ELSE LocationPlaceholder(l)

\* DiveLocation.get_description_for_language
LocationDescriptionForLanguage(tr, l, lang_code) ==
    IF tr[l, lang_code] # NoRow THEN tr[l, lang_code].text["description"]
    ELSE IF tr[l, "nl"] # NoRow THEN tr[l, "nl"].text["description"]
    ELSE ""

\* What a call of one of the four methods returned.
Returned(op, id, lang_code, value) ==
    [op |-> op, response |-> "returned", id |-> id, lang_code |-> lang_code,
     value |-> value]

\* club.get_name_for_language(lang_code), as club_detail and dive_clubs call it
DiveClubGetNameForLanguage(c, lang_code) ==
    /\ club[c] # NoClub
    /\ last' = Returned("DiveClub.get_name_for_language", c, lang_code,
                        ClubNameForLanguage(clubTr, c, lang_code))
    /\ UNCHANGED <<club, clubTr, loc, locTr, sug, req, removing, account>>

\* club.get_description_for_language(lang_code)
DiveClubGetDescriptionForLanguage(c, lang_code) ==
    /\ club[c] # NoClub
    /\ last' = Returned("DiveClub.get_description_for_language", c, lang_code,
                        ClubDescriptionForLanguage(clubTr, c, lang_code))
    /\ UNCHANGED <<club, clubTr, loc, locTr, sug, req, removing, account>>

\* location.get_name_for_language(lang_code)
DiveLocationGetNameForLanguage(l, lang_code) ==
    /\ loc[l] # NoLocation
    /\ last' = Returned("DiveLocation.get_name_for_language", l, lang_code,
                        LocationNameForLanguage(locTr, l, lang_code))
    /\ UNCHANGED <<club, clubTr, loc, locTr, sug, req, removing, account>>

\* location.get_description_for_language(lang_code)
DiveLocationGetDescriptionForLanguage(l, lang_code) ==
    /\ loc[l] # NoLocation
    /\ last' = Returned("DiveLocation.get_description_for_language", l, lang_code,
                        LocationDescriptionForLanguage(locTr, l, lang_code))
    /\ UNCHANGED <<club, clubTr, loc, locTr, sug, req, removing, account>>

\* The getters of the other translated fields of a location, by field.
FieldGetters ==
    [dangers       |-> "DiveLocation.get_dangers_for_language",
     nicknames     |-> "DiveLocation.get_nicknames_for_language",
     address       |-> "DiveLocation.get_address_for_language",
     parking       |-> "DiveLocation.get_parking_for_language",
     sight         |-> "DiveLocation.get_sight_for_language",
     max_depth     |-> "DiveLocation.get_max_depth_for_language",
     bottom_type   |-> "DiveLocation.get_bottom_type_for_language",
     type_of_water |-> "DiveLocation.get_type_of_water_for_language"]

\* DiveLocation.get_dangers_for_language and the seven like it:
\* translations.get(language__code=lang_code).<field> or '', and '' when
\* get raises DoesNotExist.
LocationFieldForLanguage(tr, l, field, lang_code) ==
    IF tr[l, lang_code] # NoRow THEN tr[l, lang_code].text[field] ELSE ""

\* location.get_<field>_for_language(lang_code)
DiveLocationGetFieldForLanguage(l, field, lang_code) ==
    /\ loc[l] # NoLocation
    /\ last' = Returned(FieldGetters[field], l, lang_code,
                        LocationFieldForLanguage(locTr, l, field, lang_code))
    /\ UNCHANGED <<club, clubTr, loc, locTr, sug, req, removing, account>>

\* The translation rows a club can have in a language: none, a row with a
\* name and a description, a row with neither.  The rows of the two
\* languages differ in every field.
ClubRowsStored(c, lang) ==
    {NoRow,
     ClubRow(<<>>, "", <<"c","l","u","b","-">> \o Digits(c)),
     IF lang = "nl"
     THEN ClubRow(NameDuikclubNoord, "Een duikclub", Slugify(NameDuikclubNoord))
     ELSE ClubRow(NameVinkeveen, "A dive club", Slugify(NameVinkeveen))}

\* The translation rows a location can have in a language.
LocationRowsStored(l, lang) ==
    {NoRow,
     LocationRow(LocationPlaceholder(l), [f \in TextFields |-> ""], <<>>),
     IF lang = "nl"
     THEN LocationRow(NameZeeland, [f \in TextFields |-> "nl"], Slugify(NameZeeland))
     ELSE LocationRow(NameVinkeveen, [f \in TextFields |-> "en"],
                      Slugify(NameVinkeveen))}

\* A store with one club and one location and any of their translation
\* rows: the translation models are registered with the admin site, which
\* adds and deletes single rows.
InitStored ==
    /\ \E c \in ClubIds :
         /\ club = [d \in ClubIds |->
                       IF d = c
                       THEN DiveClubSave([created_by |-> "root", admins |-> {},
                                          members |-> {}, pending_members |-> {}])
                       ELSE NoClub]
         /\ \E nl \in ClubRowsStored(c, "nl"), en \in ClubRowsStored(c, "en") :
              clubTr = [k \in ClubIds \X Langs |->
                           IF k = <<c, "nl">> THEN nl
                           ELSE IF k = <<c, "en">> THEN en ELSE NoRow]
    /\ \E l \in LocationIds :
         /\ loc = [m \in LocationIds |->
                      IF m = l
                      THEN [country |-> None, latitude |-> None, longitude |-> None,
                            language |-> "nl", created_by |-> "root"]
                      ELSE NoLocation]
         /\ \E nl \in LocationRowsStored(l, "nl"), en \in LocationRowsStored(l, "en") :
              locTr = [k \in LocationIds \X Langs |->
                          IF k = <<l, "nl">> THEN nl
                          ELSE IF k = <<l, "en">> THEN en ELSE NoRow]
    /\ sug = [s \in SuggestionIds |-> NoSuggestion]
    /\ req = [c \in ClubIds |-> NoRequest]
    /\ removing = [u \in Users |-> NoRequest]
    /\ account = [a \in AccountIds |-> NoAccount]
    /\ last = Response("none", "none")

(***************************************************************************)
(* The listings (models.py, get_for_current_language; views.dive_clubs).   *)
(* filter() with two conditions on translations asks for one row that      *)
(* meets both.  exclude() with two conditions on a multi-valued relation   *)
(* does not: the queryset leaves out every object that has a row meeting   *)
(* the first condition and a row, the same or another, meeting the second. *)
(***************************************************************************)
\* DiveClub.get_for_current_language
ClubsForCurrentLanguage(clubs, tr, current_lang) ==
    {c \in ClubIds :
        /\ clubs[c] # NoClub
        /\ tr[c, current_lang] # NoRow
        /\ ~(/\ tr[c, current_lang] # NoRow
             /\ \E l \in Langs : tr[c, l] # NoRow /\ tr[c, l].name = <<>>)}

\* views.dive_clubs: the clubs handed to the template
DiveClubsListing(clubs, tr, current_lang) ==
    {c \in ClubsForCurrentLanguage(clubs, tr, current_lang) :
        ClubSlugForLanguage(tr, c, current_lang) # <<>>}

\* DiveLocation.get_for_current_language, which views.dive_locations hands
\* to the template
LocationsForCurrentLanguage(locations, tr, current_lang) ==
    {l \in LocationIds :
        /\ locations[l] # NoLocation
        /\ tr[l, current_lang] # NoRow
        /\ ~(/\ tr[l, current_lang] # NoRow
             /\ \E k \in Langs : tr[l, k] # NoRow /\ tr[l, k].name = <<>>)}

(***************************************************************************)
(* Translations of a location saved by its form (forms.py,                 *)
(* DiveLocationForm._save_translations): a block per language, each in its *)
(* own try, each only when the name of its language is given.              *)
(***************************************************************************)
\* f"location-{location.id}" and f"location-{location.id}-en"
LocationSlugDefault(location, lang) ==
    <<"l","o","c","a","t","i","o","n","-">> \o Digits(location)
        \o (IF lang = "en" THEN <<"-","e","n">> ELSE <<>>)

\* One block: get_or_create, the fields, the slug, the loop, save; an
\* exception is caught and leaves what get_or_create wrote.
SaveLocationTranslation(tr, location, lang, name, text) ==
    LET created  == tr[location, lang] = NoRow
        tr1      == IF created
                    THEN [tr EXCEPT ![location, lang] = LocationRow(name, text, <<>>)]
                    ELSE tr
        original == IF name # <<>> THEN Slugify(name)
                    ELSE LocationSlugDefault(location, lang)
        row      == LocationRow(name, text,
                                UniqueLocationSlug(tr1, location, lang, original))
    IN  IF name = <<>> THEN tr
        ELSE IF SaveRaises(row) THEN tr1
        ELSE [tr1 EXCEPT ![location, lang] = row]

\* DiveLocationForm._save_translations: the Dutch block, then the English.
SaveLocationTranslations(tr, location, data) ==
    SaveLocationTranslation(
        SaveLocationTranslation(tr, location, "nl", Strip(data.name_nl), data.text_nl),
        location, "en", Strip(data.name_en), data.text_en)

\* The cleaned_data that _save_translations reads.
LocationTranslationInputs ==
    [name_nl : {NameZeeland, NameLong}, name_en : {NameZeeland, NameLong},
     text_nl : {[f \in TextFields |-> "nl"]}, text_en : {[f \in TextFields |-> "en"]}]

\* form._save_translations(location) for a location that is stored
DiveLocationFormSaveTranslations(location, data) ==
    /\ loc[location] # NoLocation
    /\ locTr' = SaveLocationTranslations(locTr, location, data)
    /\ last' = Response("DiveLocationForm._save_translations", "returned")
    /\ UNCHANGED <<club, clubTr, loc, sug, req, removing, account>>

\* The club forms whose two names save or fail independently.
ClubTranslationInputs ==
    [name_nl : {NameDuikclubNoord, NameLong}, name_en : {NameDuikclubNoord, NameLong},
     description_nl : {"Een duikclub"}, description_en : {"A dive club"}]

(***************************************************************************)
(* views.club_detail: the page of the club whose translation in the        *)
(* current language has the slug of the URL.                               *)
(***************************************************************************)
\* The rows that DiveClubTranslation.objects.get(slug=club_slug,
\* language__code=current_lang) matches, by club.
ClubDetailMatches(tr, current_lang, club_slug) ==
    {c \in ClubIds : tr[c, current_lang] # NoRow
                     /\ tr[c, current_lang].slug = club_slug}

\* The answer of club_detail: get() raises DoesNotExist, which the view
\* turns into a redirect, or MultipleObjectsReturned, which it does not
\* catch, or returns the one row.
ClubDetailResponse(tr, current_lang, club_slug) ==
    LET found == ClubDetailMatches(tr, current_lang, club_slug)
    IN  IF found = {} THEN "302 dive_clubs"
        ELSE IF Cardinality(found) > 1 THEN "500"
        ELSE "200 club_detail"

(***************************************************************************)
(* Accounts (views.py, register and activate).                             *)
(***************************************************************************)
\* A User row as register saves it.
AccountRow(username, email, is_active) ==
    [username |-> username, email |-> email, is_active |-> is_active]

UsernameBob == <<"b", "o", "b">>

UsernameCarol == <<"c", "a", "r", "o", "l">>

UsernameDave == <<"d", "a", "v", "e", "7">>

UsernameDashed == <<"b", "-", "b">>

Usernames == {UsernameBob, UsernameCarol, UsernameDave, UsernameDashed}

Emails == {"", "diver@example.org"}

Passwords == {"pw-one", "pw-two"}

\* The characters of ^[A-Za-z0-9]+$ that the usernames of the model use.
UsernameChars == {"a", "b", "c", "d", "e", "l", "o", "r", "v", "7"}

\* CustomUserCreationForm.clean_username: re.match(r'^[A-Za-z0-9]+$', ...).
CleanUsername(username) ==
    /\ Len(username) > 0
    /\ \A i \in 1..Len(username) : username[i] \in UsernameChars

\* User.username is unique: the model form refuses a name that has a row.
UsernameExists(acc, username) ==
    \E a \in AccountIds : acc[a] # NoAccount /\ acc[a].username = username

\* The POST bodies of register.
RegistrationInputs ==
    [username : Usernames, email : Emails,
     password1 : Passwords, password2 : Passwords]

\* CustomUserCreationForm(request.POST).is_valid(): the email is required,
\* the username is clean and new, and the two passwords are the same.
RegistrationFormIsValid(acc, data) ==
    /\ data.email # ""
    /\ CleanUsername(data.username)
    /\ ~UsernameExists(acc, data.username)
    /\ data.password1 = data.password2

\* The primary key that the database gives to the next User row.
NextAccountId(acc) ==
    CHOOSE a \in AccountIds :
        /\ acc[a] = NoAccount
        /\ \A b \in AccountIds : acc[b] = NoAccount => a <= b

\* urlsafe_base64_encode(force_bytes(pk)) of a one-digit primary key.
Uidb64Of == <<"MQ", "Mg", "Mw", "NA", "NQ", "Ng", "Nw", "OA", "OQ">>

UrlsafeBase64Encode(pk) == Uidb64Of[pk]

\* urlsafe_base64_decode(uidb64).decode() followed by the conversion of the
\* text to a primary key: the digit that encodes to uidb64, or 0 for a text
\* that is no number ("YWJj" is "abc") and for what cannot be decoded.
UrlsafeBase64Decode(uidb64) ==
    IF \E pk \in 1..Len(Uidb64Of) : Uidb64Of[pk] = uidb64
    THEN CHOOSE pk \in 1..Len(Uidb64Of) : Uidb64Of[pk] = uidb64
    ELSE 0

\* The uidb64 part of the activation links that the model follows: the links
\* of the rows that can exist, of one row beyond them, and two that hold no
\* primary key.
UidInputs ==
    {UrlsafeBase64Encode(pk) : pk \in 1..(MaxAccounts + 1)} \cup {"YWJj", "-"}

\* default_token_generator.make_token(user): a hash over the primary key,
\* the password, last_login and the email of the user. No view of the
\* program lets an inactive user log in or change the password, so both are
\* left out of the value.
MakeToken(pk, row) == [pk |-> pk, email |-> row.email]

InvalidToken == [pk |-> 0, email |-> ""]

TokenInputs ==
    [pk : AccountIds, email : Emails \ {""}] \cup {InvalidToken}

\* A check that accepts every token.
CheckToken_AnyToken(pk, row, token) == TRUE

\* default_token_generator.check_token(user, token).
CheckToken(pk, row, token) == token = MakeToken(pk, row)

\* The result of send_mail: the message is handed over, or the call raises.
MailOutcomes == {"sent", "raised"}

\* register: a valid POST saves the user with is_active = False, and only
\* then sends the mail; what send_mail raises leaves the view as an error,
\* after the save. Every other request renders the form.
Register(method, data, mail) ==
    /\ \E a \in AccountIds : account[a] = NoAccount
    /\ IF method = "POST" /\ RegistrationFormIsValid(account, data)
       THEN LET pk == NextAccountId(account)
            IN  /\ account' = [account EXCEPT
                       ![pk] = AccountRow(data.username, data.email, FALSE)]
                /\ last' = [op |-> "register",
                            response |-> IF mail = "raised"
                                         THEN "500"
                                         ELSE "302 registration_complete",
                            uidb64 |-> UrlsafeBase64Encode(pk),
                            token |-> MakeToken(pk, account'[pk])]
       ELSE /\ last' = [op |-> "register", response |-> "200 register",
                        uidb64 |-> "", token |-> InvalidToken]
            /\ UNCHANGED account
    /\ UNCHANGED <<club, clubTr, loc, locTr, sug, req, removing>>

\* The user that activate finds: User.objects.get(pk=uid), or None after
\* one of the exceptions that the view catches.
ActivateUser(acc, uidb64) ==
    LET uid == UrlsafeBase64Decode(uidb64)
    IN  IF uid \in AccountIds /\ acc[uid] # NoAccount THEN uid ELSE 0

\* activate: with a user and a token that checks, is_active = True is
\* saved; otherwise the page activation_invalid is rendered.
Activate(uidb64, token) ==
    LET user == ActivateUser(account, uidb64)
    IN  /\ IF user # 0 /\ CheckToken(user, account[user], token)
           THEN /\ account' = [account EXCEPT ![user].is_active = TRUE]
                /\ last' = [op |-> "activate", response |-> "302 login",
                            uidb64 |-> uidb64, token |-> token]
           ELSE /\ last' = [op |-> "activate",
                            response |-> "200 activation_invalid",
                            uidb64 |-> uidb64, token |-> token]
                /\ UNCHANGED account
        /\ UNCHANGED <<club, clubTr, loc, locTr, sug, req, removing>>

(***************************************************************************)
(* The store after the migrations: no rows, and no request in flight.      *)
(***************************************************************************)
Init ==
    /\ club = [c \in ClubIds |-> NoClub]
    /\ clubTr = [k \in ClubIds \X Langs |-> NoRow]
    /\ loc = [l \in LocationIds |-> NoLocation]
    /\ locTr = [k \in LocationIds \X Langs |-> NoRow]
    /\ sug = [s \in SuggestionIds |-> NoSuggestion]
    /\ req = [c \in ClubIds |-> NoRequest]
    /\ removing = [u \in Users |-> NoRequest]
    /\ account = [a \in AccountIds |-> NoAccount]
    /\ last = Response("none", "none")

\* The club forms, one request at a time.
NextClub ==
    \/ \E user \in Callers, method \in Methods, lang \in Langs :
          \E data \in CreateClubFormOf(user, method) :
              CreateDiveClub(user, method, lang, data)
    \/ \E user \in Callers, method \in Methods, lang \in Langs :
          \E club_slug \in ClubSlugInputs, data \in ClubFormOf(user, method) :
              EditDiveClub(user, method, lang, club_slug, data)

SpecClub == Init /\ [][NextClub]_vars

\* The locations and their suggestions, one request at a time: the forms
\* are posted by LocationCreators for the locations that exist, the
\* suggestions are listed and decided by the users who are logged in, or
\* apply_changes is called on them as stored.
NextSuggestion ==
    \/ \E user \in LocationCreators, lang \in Langs :
          \E data \in LocationFormOf(user, "POST") :
              CreateDiveLocation(user, "POST", lang, data)
    \/ \E user \in LocationCreators, target_language \in Langs,
          location_id \in {l \in LocationIds : loc[l] # NoLocation},
          data \in SuggestionInputs :
              SuggestLocationEdit(user, "POST", location_id, target_language, data)
    \/ \E user \in Users : ReviewLocationSuggestions(user)
    \/ \E user \in Users, method \in Methods, suggestion_id \in SuggestionIds :
          ApproveLocationSuggestion(user, method, suggestion_id)
    \/ \E user \in Users, method \in Methods, suggestion_id \in SuggestionIds :
          RejectLocationSuggestion(user, method, suggestion_id)
    \/ \E suggestion_id \in SuggestionIds : CallApplyChanges(suggestion_id)

SpecSuggestion == Init /\ [][NextSuggestion]_vars

\* The requests that create clubs, statement by statement.
NextConcurrent ==
    \/ \E user \in ClubCreators, lang \in Langs, data \in ConcurrentFormInputs :
          BeginCreateDiveClub(user, lang, data)
    \/ \E c \in ClubIds : GetOrCreateTranslation(c)
    \/ \E c \in ClubIds : SlugExistsQuery(c)
    \/ \E c \in ClubIds : SaveTranslation(c)

SpecConcurrent == Init /\ [][NextConcurrent]_vars

\* The form that creates and edits the clubs whose membership changes: a
\* Dutch name alone, so that the club has a slug in Dutch and none in
\* English.
MembershipClubForm ==
    [name_nl |-> NameDuikclubNoord, name_en |-> <<>>,
     description_nl |-> "Een duikclub", description_en |-> "A dive club"]

\* Clubs and their membership, one request at a time, by the users who are
\* logged in.
NextMembership ==
    \/ \E user \in ClubCreators :
          CreateDiveClub(user, "POST", "nl", MembershipClubForm)
    \/ \E user \in Users, club_slug \in ClubSlugInputs :
          EditDiveClub(user, "POST", "nl", club_slug, MembershipClubForm)
    \/ \E user \in Users, method \in Methods, club_id \in ClubIds :
          RequestJoinClub(user, method, "nl", club_id)
    \/ \E user \in Users, club_id \in ClubIds, user_id \in UserIds :
          ApproveMember(user, "POST", "nl", club_id, user_id)
    \/ \E user \in Users, club_id \in ClubIds, user_id \in Users :
          RejectMember(user, "POST", "nl", club_id, user_id)
    \/ \E user \in Users, club_id \in ClubIds, user_id \in Users :
          RemoveMember(user, "POST", "nl", club_id, user_id)
    \/ \E user \in Users, club_id \in ClubIds, user_id \in Users :
          PromoteToAdmin(user, "POST", "nl", club_id, user_id)
    \/ \E user \in Users, lang \in Langs, club_id \in ClubIds, user_id \in Users :
          RemoveAdmin(user, "POST", lang, club_id, user_id)

SpecMembership == Init /\ [][NextMembership]_vars

\* The club whose admins the concurrent requests address.
ConcurrentClubIds == {1}

\* The requests that give a club a second admin, one at a time, and the
\* remove_admin requests, statement by statement.
NextConcurrentAdmin ==
    \/ \E user \in ClubCreators :
          CreateDiveClub(user, "POST", "nl", MembershipClubForm)
    \/ \E user \in Users, club_id \in ConcurrentClubIds :
          RequestJoinClub(user, "POST", "nl", club_id)
    \/ \E user \in Users, club_id \in ConcurrentClubIds, user_id \in Users :
          ApproveMember(user, "POST", "nl", club_id, user_id)
    \/ \E user \in Users, club_id \in ConcurrentClubIds, user_id \in Users :
          PromoteToAdmin(user, "POST", "nl", club_id, user_id)
    \/ \E user \in Users, club_id \in ConcurrentClubIds, user_id \in Users :
          BeginRemoveAdmin(user, "nl", club_id, user_id)
    \/ \E user \in Users : TargetInAdminsQuery(user)
    \/ \E user \in Users : AdminsCountQuery(user)
    \/ \E user \in Users : AdminsRemove(user)

SpecConcurrentAdmin == Init /\ [][NextConcurrentAdmin]_vars

\* The calls that read a translated name or description.
NextStored ==
    \/ \E c \in ClubIds, lang_code \in Langs :
          DiveClubGetNameForLanguage(c, lang_code)
    \/ \E c \in ClubIds, lang_code \in Langs :
          DiveClubGetDescriptionForLanguage(c, lang_code)
    \/ \E l \in LocationIds, lang_code \in Langs :
          DiveLocationGetNameForLanguage(l, lang_code)
    \/ \E l \in LocationIds, lang_code \in Langs :
          DiveLocationGetDescriptionForLanguage(l, lang_code)
    \/ \E l \in LocationIds, field \in DOMAIN FieldGetters, lang_code \in Langs :
          DiveLocationGetFieldForLanguage(l, field, lang_code)

SpecStored == InitStored /\ [][NextStored]_vars

\* The forms that save translations in two languages.
NextForms ==
    \/ \E user \in ClubCreators, lang \in Langs, data \in ClubTranslationInputs :
          CreateDiveClub(user, "POST", lang, data)
    \/ \E user \in LocationCreators, lang \in Langs :
          \E data \in LocationFormOf(user, "POST") :
              CreateDiveLocation(user, "POST", lang, data)
    \/ \E location \in LocationIds, data \in LocationTranslationInputs :
          DiveLocationFormSaveTranslations(location, data)

SpecForms == Init /\ [][NextForms]_vars

(***************************************************************************)
(* Registration and activation of accounts.                                *)
(***************************************************************************)
NextAccounts ==
    \/ \E method \in Methods, data \in RegistrationInputs, mail \in MailOutcomes :
          Register(method, data, mail)
    \/ \E uidb64 \in UidInputs, token \in TokenInputs :
          Activate(uidb64, token)

SpecAccounts == Init /\ [][NextAccounts]_vars

(***************************************************************************)
(* Properties of the slugs of clubs.                                       *)
(***************************************************************************)
SlugDuikclubNoord == <<"d","u","i","k","c","l","u","b","-","n","o","o","r","d">>

\* C1: after any sequence of form saves and approvals executed one at a
\* time, two distinct clubs that both have a translation row in the same
\* language have different slugs in that language, and likewise two distinct
\* dive locations.
SlugsUniquePerLanguage ==
    /\ \A c1, c2 \in ClubIds, L \in Langs :
           (c1 # c2 /\ clubTr[c1, L] # NoRow /\ clubTr[c2, L] # NoRow)
               => clubTr[c1, L].slug # clubTr[c2, L].slug
    /\ \A l1, l2 \in LocationIds, L \in Langs :
           (l1 # l2 /\ locTr[l1, L] # NoRow /\ locTr[l2, L] # NoRow)
               => locTr[l1, L].slug # locTr[l2, L].slug

\* C2: when two requests save translations of two distinct clubs with the
\* same name in the same language and their statements interleave, the two
\* slugs stored once both requests are done differ.
ConcurrentSlugsDiffer ==
    \A c1, c2 \in ClubIds, L \in Langs :
        (/\ c1 # c2
         /\ req[c1] # NoRequest /\ req[c2] # NoRequest
         /\ req[c1].pc = "done" /\ req[c2].pc = "done"
         /\ clubTr[c1, L] # NoRow /\ clubTr[c2, L] # NoRow
         /\ clubTr[c1, L].name = clubTr[c2, L].name)
            => clubTr[c1, L].slug # clubTr[c2, L].slug

\* C3: a request that writes the translation of club c in language L with
\* a name whose slug is s stores s when no other club holds s in L, and
\* otherwise s-k for the smallest k >= 1 such that no other club holds s-k
\* in L.
SlugSuffixNumbering ==
    [][\A c \in ClubIds, L \in Langs :
         LET s       == Slugify(clubTr'[c, L].name)
             held(x) == \E d \in ClubIds \ {c} :
                            clubTr[d, L] # NoRow /\ clubTr[d, L].slug = x
             suffixed(k) == s \o <<"-">> \o Digits(k)
             k       == CHOOSE k \in 1..MaxClubs :
                            /\ ~held(suffixed(k))
                            /\ \A j \in 1..(k - 1) : held(suffixed(j))
             expected == IF held(s) THEN suffixed(k) ELSE s
         IN  (/\ clubTr'[c, L] # clubTr[c, L]
              /\ clubTr'[c, L].name # <<>>)
                 => clubTr'[c, L].slug = expected]_vars

\* C3, for the slugs that fit the slug column: the same statement about
\* the requests whose translation.save() the store accepts.
SlugSuffixNumberingWhenSaved ==
    [][\A c \in ClubIds, L \in Langs :
         LET s       == Slugify(clubTr'[c, L].name)
             held(x) == \E d \in ClubIds \ {c} :
                            clubTr[d, L] # NoRow /\ clubTr[d, L].slug = x
             suffixed(k) == s \o <<"-">> \o Digits(k)
             k       == CHOOSE k \in 1..MaxClubs :
                            /\ ~held(suffixed(k))
                            /\ \A j \in 1..(k - 1) : held(suffixed(j))
             expected == IF held(s) THEN suffixed(k) ELSE s
         IN  (/\ clubTr'[c, L] # clubTr[c, L]
              /\ clubTr'[c, L].name # <<>>
              /\ Len(expected) <= SlugMaxLength)
                 => clubTr'[c, L].slug = expected]_vars

\* C3, the example: two clubs with the Dutch name "Duikclub Noord" hold
\* 'duikclub-noord' and 'duikclub-noord-1'.
SecondClubIsSuffixed ==
    \E c1, c2 \in ClubIds :
        /\ clubTr[c1, "nl"] # NoRow /\ clubTr[c2, "nl"] # NoRow
        /\ clubTr[c1, "nl"].name = NameDuikclubNoord
        /\ clubTr[c2, "nl"].name = NameDuikclubNoord
        /\ clubTr[c1, "nl"].slug = SlugDuikclubNoord
        /\ clubTr[c2, "nl"].slug = SlugDuikclubNoord \o <<"-", "1">>

\* C4: a slug that other clubs hold only in a different language causes no
\* suffix: the translation written for club c in language L gets the slug
\* of its name when no other club holds it in L, although another club
\* holds it in the other language.
SlugScopedPerLanguage ==
    [][\A c \in ClubIds, L \in Langs :
         LET s == Slugify(clubTr'[c, L].name)
         IN  (/\ clubTr'[c, L] # clubTr[c, L]
              /\ clubTr'[c, L].name # <<>>
              /\ \A d \in ClubIds \ {c} :
                     clubTr[d, L] # NoRow => clubTr[d, L].slug # s
              /\ \E d \in ClubIds \ {c}, M \in Langs \ {L} :
                     clubTr[d, M] # NoRow /\ clubTr[d, M].slug = s)
                 => clubTr'[c, L].slug = s]_vars

\* C4, its case: one club holds 'duikclub-noord' in Dutch only, and another
\* club holds the same slug in English.
SameSlugInTwoLanguages ==
    \E c1, c2 \in ClubIds :
        /\ c1 # c2
        /\ clubTr[c1, "nl"] # NoRow /\ clubTr[c1, "nl"].slug = SlugDuikclubNoord
        /\ clubTr[c1, "en"] = NoRow
        /\ clubTr[c2, "en"] # NoRow /\ clubTr[c2, "en"].slug = SlugDuikclubNoord
        /\ clubTr[c2, "en"].name = NameDuikclubNoord

(***************************************************************************)
(* Properties of the suggestions.                                          *)
(***************************************************************************)
\* C5: once the status of a suggestion is rejected or approved, no request
\* changes that status.
DecidedStatusIsTerminal ==
    [][\A s \in SuggestionIds :
         (SuggestionExists(s) /\ sug[s].status \in {"approved", "rejected"})
             => sug'[s].status = sug[s].status]_vars

\* C6: no request on a suggestion whose status is rejected writes to a
\* DiveLocation or to a translation row.
RejectedNeverMutatesLocation ==
    [][\A user \in Users, method \in Methods, s \in SuggestionIds :
         (/\ SuggestionExists(s)
          /\ sug[s].status = "rejected"
          /\ \/ ApproveLocationSuggestion(user, method, s)
             \/ RejectLocationSuggestion(user, method, s)
             \/ CallApplyChanges(s))
             => UNCHANGED <<loc, locTr>>]_vars

\* C7: apply_changes called on a suggestion whose status is pending or
\* rejected changes no location, no translation row (none is created) and
\* no suggestion.
ApplyChangesOnUndecidedIsNoOp ==
    [][\A s \in SuggestionIds :
         (CallApplyChanges(s) /\ sug[s].status \in {"pending", "rejected"})
             => UNCHANGED <<loc, locTr, sug>>]_vars

\* C7, its case: apply_changes has returned for the one suggestion there
\* is, a rejected one whose name would have created a translation row.
ApplyChangesCalledOnRejected ==
    /\ last = Response("apply_changes", "None")
    /\ \E s \in SuggestionIds :
           /\ {t \in SuggestionIds : SuggestionExists(t)} = {s}
           /\ sug[s].status = "rejected"
           /\ sug[s].suggested_name # <<>>
           /\ sug[s].suggested_country # None
           /\ locTr[sug[s].original_location, sug[s].target_language] = NoRow

\* C8: when an approval is applied to a location that has a translation in
\* the target language, each translated field takes the suggested value if
\* it is not blank and keeps its old value otherwise, and country, latitude
\* and longitude are overwritten only by a suggested value that is given.
MergeIsFieldByField ==
    [][\A user \in Superusers, method \in Methods, s \in SuggestionIds :
         LET g   == sug[s]
             l   == g.original_location
             old == locTr[l, g.target_language]
             new == locTr'[l, g.target_language]
         IN  (/\ SuggestionExists(s)
              /\ ApproveLocationSuggestion(user, method, s)
              /\ old # NoRow)
                 => /\ new.name = IF g.suggested_name # <<>>
                                  THEN g.suggested_name ELSE old.name
                    /\ \A f \in TextFields :
                           new.text[f] = IF g.suggested_text[f] # ""
                                         THEN g.suggested_text[f] ELSE old.text[f]
                    /\ loc'[l].country = IF g.suggested_country # None
                                         THEN g.suggested_country ELSE loc[l].country
                    /\ loc'[l].latitude = IF g.suggested_latitude # None
                                          THEN g.suggested_latitude ELSE loc[l].latitude
                    /\ loc'[l].longitude = IF g.suggested_longitude # None
                                           THEN g.suggested_longitude
                                           ELSE loc[l].longitude]_vars

\* C8, for the approvals that complete: the same statement about the
\* requests whose translation.save() the store accepts.
MergeIsFieldByFieldWhenSaved ==
    [][\A user \in Superusers, method \in Methods, s \in SuggestionIds :
         LET g   == sug[s]
             l   == g.original_location
             old == locTr[l, g.target_language]
             new == locTr'[l, g.target_language]
         IN  (/\ SuggestionExists(s)
              /\ ApproveLocationSuggestion(user, method, s)
              /\ last'.response = "302 review_location_suggestions"
              /\ old # NoRow)
                 => /\ new.name = IF g.suggested_name # <<>>
                                  THEN g.suggested_name ELSE old.name
                    /\ \A f \in TextFields :
                           new.text[f] = IF g.suggested_text[f] # ""
                                         THEN g.suggested_text[f] ELSE old.text[f]
                    /\ loc'[l].country = IF g.suggested_country # None
                                         THEN g.suggested_country ELSE loc[l].country
                    /\ loc'[l].latitude = IF g.suggested_latitude # None
                                          THEN g.suggested_latitude ELSE loc[l].latitude
                    /\ loc'[l].longitude = IF g.suggested_longitude # None
                                           THEN g.suggested_longitude
                                           ELSE loc[l].longitude]_vars

\* C9: after approve_location_suggestion by a superuser has completed, the
\* values of the suggestion are in the original location and in its
\* translation of the target language, and the suggestion exists no more:
\* it is not in the list of the pending ones, and it never exists again.
ApproveMergesThenDeletes ==
    [][/\ \A user \in Superusers, method \in Methods, s \in SuggestionIds :
            LET g   == sug[s]
                l   == g.original_location
                new == locTr'[l, g.target_language]
            IN  (/\ ApproveLocationSuggestion(user, method, s)
                 /\ last'.response = "302 review_location_suggestions")
                    => /\ sug'[s].deleted
                       /\ s \notin PendingSuggestions'
                       /\ new # NoRow
                       /\ g.suggested_name # <<>> => new.name = g.suggested_name
                       /\ \A f \in TextFields :
                              g.suggested_text[f] # ""
                                  => new.text[f] = g.suggested_text[f]
                       /\ g.suggested_country # None
                              => loc'[l].country = g.suggested_country
                       /\ g.suggested_latitude # None
                              => loc'[l].latitude = g.suggested_latitude
                       /\ g.suggested_longitude # None
                              => loc'[l].longitude = g.suggested_longitude
       /\ \A s \in SuggestionIds :
            (sug[s] # NoSuggestion /\ sug[s].deleted) => sug'[s] = sug[s]]_vars

\* C9, its case: an approval has completed, its suggestion is deleted and
\* its name and country are those of the location.
ApprovedAndDeleted ==
    /\ last = Response("approve_location_suggestion",
                       "302 review_location_suggestions")
    /\ \E s \in SuggestionIds :
           /\ sug[s] # NoSuggestion /\ sug[s].deleted
           /\ sug[s].suggested_name # <<>>
           /\ locTr[sug[s].original_location, sug[s].target_language] # NoRow
           /\ locTr[sug[s].original_location, sug[s].target_language].name
                  = sug[s].suggested_name
           /\ loc[sug[s].original_location].country = sug[s].suggested_country

\* C10: approve_location_suggestion and reject_location_suggestion called
\* by an authenticated user who is no superuser answer 403 and change no
\* suggestion, no location and no translation.
OnlySuperuserDecides ==
    [][\A user \in Users \ Superusers, method \in Methods, s \in SuggestionIds :
         (\/ ApproveLocationSuggestion(user, method, s)
          \/ RejectLocationSuggestion(user, method, s))
             => /\ last'.response = "403"
                /\ UNCHANGED <<sug, loc, locTr>>]_vars

\* C10, its case: a request to approve was answered 403 while a suggestion
\* is pending.
ApproveRefused ==
    /\ last = Response("approve_location_suggestion", "403")
    /\ PendingSuggestions # {}

(***************************************************************************)
(* Properties of the membership of clubs.                                  *)
(***************************************************************************)
\* C11: after any sequence of membership operations and edits executed
\* one at a time, the admins set of every club that was created is not
\* empty.
ClubKeepsAnAdmin ==
    \A c \in ClubIds : club[c] # NoClub => club[c].admins # {}

\* C11, its case: remove_admin has removed the creator of a club, and the
\* club is left with the admin who was promoted.
CreatorRemovedAdminLeft ==
    /\ last.op = "remove_admin"
    /\ \E c \in ClubIds :
           /\ club[c] # NoClub
           /\ club[c].admins # {}
           /\ club[c].created_by \notin club[c].admins

\* C12: remove_admin that targets the only admin of a club leaves admins,
\* members and pending_members as they were and redirects to the club's
\* page, or to the list of clubs when the club has no slug in the current
\* language.
RemoveSoleAdminIsDeclined ==
    [][\A user \in Users, method \in Methods, lang \in Langs,
          c \in ClubIds, user_id \in Users :
         (/\ club[c] # NoClub
          /\ club[c].admins = {user_id}
          /\ user \in club[c].admins
          /\ last'.op = "remove_admin"
          /\ RemoveAdmin(user, method, lang, c, user_id))
             => /\ club'[c] = club[c]
                /\ last'.response =
                       IF clubTr[c, lang] # NoRow /\ clubTr[c, lang].slug # <<>>
                       THEN "302 club_detail" ELSE "302 dive_clubs"]_vars

\* C12, its case: remove_admin was answered with the redirect to the list
\* of clubs, the only club has one admin, and the other user has requested
\* to join.
SoleAdminAfterRemoveAdmin ==
    /\ last = Response("remove_admin", "302 dive_clubs")
    /\ \E c \in ClubIds :
           /\ club[c] # NoClub
           /\ \A d \in ClubIds \ {c} : club[d] = NoClub
           /\ club[c].admins = {club[c].created_by}
           /\ club[c].members = {}
           /\ club[c].pending_members = Users \ club[c].admins

\* C13: when a club has exactly two admins and two remove_admin requests,
\* each removing one of them, run with their count check and their removal
\* interleaved, the club has at least one admin once both requests are
\* done.
ConcurrentRemoveKeepsAnAdmin ==
    (\A u \in Users : removing[u] = NoRequest)
        => \A c \in ClubIds : club[c] # NoClub => Cardinality(club[c].admins) >= 1

\* C14: in every state, the user who created a club is one of its admins.
CreatorIsAlwaysAdmin ==
    \A c \in ClubIds : club[c] # NoClub => club[c].created_by \in club[c].admins

\* C15: approve_member, reject_member, remove_member, promote_to_admin and
\* remove_admin called by a user who is no admin of the club answer 403 and
\* leave members, admins and pending_members of every club unchanged.
MembershipNeedsAdminCaller ==
    [][\A user \in Users, method \in Methods, lang \in Langs,
          c \in ClubIds, user_id \in UserIds :
         (/\ club[c] # NoClub
          /\ user \notin club[c].admins
          /\ \/ last'.op = "approve_member"
                    /\ ApproveMember(user, method, lang, c, user_id)
             \/ last'.op = "reject_member"
                    /\ RejectMember(user, method, lang, c, user_id)
             \/ last'.op = "remove_member"
                    /\ RemoveMember(user, method, lang, c, user_id)
             \/ last'.op = "promote_to_admin"
                    /\ PromoteToAdmin(user, method, lang, c, user_id)
             \/ last'.op = "remove_admin"
                    /\ RemoveAdmin(user, method, lang, c, user_id))
             => /\ last'.response = "403"
                /\ UNCHANGED club]_vars

\* C15, its case: a user who is pending and no admin asked approve_member
\* and was answered 403.
ApproveByPendingUserRefused ==
    /\ last = Response("approve_member", "403")
    /\ \E c \in ClubIds, u \in Users :
           /\ club[c] # NoClub
           /\ u \in club[c].pending_members
           /\ u \notin club[c].admins
           /\ u \notin club[c].members

\* C16: promote_to_admin adds a user to the admins only if that user is in
\* the members; for a target who is no member the admins are unchanged.
PromotionNeedsMembership ==
    [][\A user \in Users, method \in Methods, lang \in Langs,
          c \in ClubIds, user_id \in UserIds :
         (/\ club[c] # NoClub
          /\ last'.op = "promote_to_admin"
          /\ PromoteToAdmin(user, method, lang, c, user_id))
             => /\ user_id \notin club[c].members
                    => club'[c].admins = club[c].admins
                /\ club'[c].admins \subseteq
                       club[c].admins \cup (club[c].members \cap {user_id})]_vars

\* C16, its case: promote_to_admin was answered with a redirect, and a
\* user who is pending and no member is no admin.
PendingUserNotPromoted ==
    /\ last.op = "promote_to_admin"
    /\ last.response \in {"302 club_detail", "302 dive_clubs"}
    /\ \E c \in ClubIds, u \in Users :
           /\ club[c] # NoClub
           /\ \A d \in ClubIds \ {c} : club[d] = NoClub
           /\ u \in club[c].pending_members
           /\ u \notin club[c].members
           /\ u \notin club[c].admins

\* C17: request_join_club (a POST) adds the caller to pending_members;
\* approve_member on a pending user moves the user from pending_members to
\* members; reject_member on a pending user removes the user from
\* pending_members and leaves members unchanged; approve_member and
\* reject_member on a user who is not pending change no set.
JoinRequestIsResolved ==
    [][\A user \in Users, lang \in Langs, c \in ClubIds :
         /\ (/\ club[c] # NoClub
             /\ last'.op = "request_join_club"
             /\ RequestJoinClub(user, "POST", lang, c))
                => club'[c] = [club[c] EXCEPT
                                   !.pending_members = @ \cup {user}]
         /\ \A user_id \in Users, method \in Methods :
              (club[c] # NoClub /\ user \in club[c].admins)
                  => /\ (/\ last'.op = "approve_member"
                          /\ ApproveMember(user, method, lang, c, user_id))
                         => club'[c] =
                                IF user_id \in club[c].pending_members
                                THEN [club[c] EXCEPT
                                         !.pending_members = @ \ {user_id},
                                         !.members = @ \cup {user_id}]
                                ELSE club[c]
                     /\ (/\ last'.op = "reject_member"
                          /\ RejectMember(user, method, lang, c, user_id))
                         => club'[c] =
                                IF user_id \in club[c].pending_members
                                THEN [club[c] EXCEPT
                                         !.pending_members = @ \ {user_id}]
                                ELSE club[c]]_vars

\* C17, its case: approve_member has made a member of a user who had asked
\* to join.
PendingUserApproved ==
    /\ last.op = "approve_member"
    /\ last.response \in {"302 club_detail", "302 dive_clubs"}
    /\ \E c \in ClubIds, u \in Users :
           /\ club[c] # NoClub
           /\ u \in club[c].members
           /\ u \notin club[c].pending_members
           /\ u \notin club[c].admins

(***************************************************************************)
(* Properties of the translations.                                         *)
(***************************************************************************)
\* C18: for every club, every location and every language code L,
\* get_name_for_language(L) returns the name of the translation row for L
\* when there is one, else the name of the Dutch row when there is one,
\* else "Unnamed Club" for a club and "Location {id}" for a location;
\* get_description_for_language follows the same chain and ends with "".
NameResolvesWithFallback ==
    LET id == last.id
        L  == last.lang_code
    IN
    /\ last.op = "DiveClub.get_name_for_language"
           => \/ clubTr[id, L] # NoRow /\ last.value = clubTr[id, L].name
              \/ /\ clubTr[id, L] = NoRow /\ clubTr[id, "nl"] # NoRow
                 /\ last.value = clubTr[id, "nl"].name
              \/ /\ clubTr[id, L] = NoRow /\ clubTr[id, "nl"] = NoRow
                 /\ last.value = UnnamedClub
    /\ last.op = "DiveClub.get_description_for_language"
           => \/ clubTr[id, L] # NoRow /\ last.value = clubTr[id, L].description
              \/ /\ clubTr[id, L] = NoRow /\ clubTr[id, "nl"] # NoRow
                 /\ last.value = clubTr[id, "nl"].description
              \/ /\ clubTr[id, L] = NoRow /\ clubTr[id, "nl"] = NoRow
                 /\ last.value = ""
    /\ last.op = "DiveLocation.get_name_for_language"
           => \/ locTr[id, L] # NoRow /\ last.value = locTr[id, L].name
              \/ /\ locTr[id, L] = NoRow /\ locTr[id, "nl"] # NoRow
                 /\ last.value = locTr[id, "nl"].name
              \/ /\ locTr[id, L] = NoRow /\ locTr[id, "nl"] = NoRow
                 /\ last.value = <<"L","o","c","a","t","i","o","n"," ">> \o Digits(id)
    /\ last.op = "DiveLocation.get_description_for_language"
           => \/ locTr[id, L] # NoRow /\ last.value = locTr[id, L].text["description"]
              \/ /\ locTr[id, L] = NoRow /\ locTr[id, "nl"] # NoRow
                 /\ last.value = locTr[id, "nl"].text["description"]
              \/ /\ locTr[id, L] = NoRow /\ locTr[id, "nl"] = NoRow
                 /\ last.value = ""

\* C18, its case: the English name of a club that has a Dutch row and no
\* English row was asked for, and the Dutch name was returned.
DutchNameReturnedForEnglish ==
    /\ last.op = "DiveClub.get_name_for_language"
    /\ last.lang_code = "en"
    /\ clubTr[last.id, "en"] = NoRow
    /\ clubTr[last.id, "nl"] # NoRow
    /\ last.value = NameDuikclubNoord

\* C19: for the current language L, get_for_current_language() and the
\* dive_clubs listing contain exactly the clubs, and the locations, that
\* have a translation row for L with a non-empty name, whatever their rows
\* in other languages contain.
ListingIsNamedInLanguage ==
    \A L \in Langs :
        LET named_clubs ==
                {c \in ClubIds : /\ club[c] # NoClub
                                 /\ clubTr[c, L] # NoRow
                                 /\ clubTr[c, L].name # <<>>}
            named_locations ==
                {l \in LocationIds : /\ loc[l] # NoLocation
                                     /\ locTr[l, L] # NoRow
                                     /\ locTr[l, L].name # <<>>}
        IN  /\ ClubsForCurrentLanguage(club, clubTr, L) = named_clubs
            /\ DiveClubsListing(club, clubTr, L) = named_clubs
            /\ LocationsForCurrentLanguage(loc, locTr, L) = named_locations

\* C20: a club has no translation row for a language until a form supplies
\* a non-empty name for that language: a row that appears has a name, and
\* a club form saved with an empty Dutch name creates no Dutch row.
TranslationRowsAreLazy ==
    [][\A c \in ClubIds, L \in Langs :
         (clubTr[c, L] = NoRow /\ clubTr'[c, L] # NoRow)
             => clubTr'[c, L].name # <<>>]_vars

(***************************************************************************)
(* Properties of the requests.                                             *)
(***************************************************************************)
\* C22: a GET request to a view that changes state (request_join_club,
\* approve_member, reject_member, remove_member, promote_to_admin,
\* remove_admin, approve_location_suggestion, reject_location_suggestion)
\* leaves the clubs, the locations, their translations and the suggestions
\* unchanged.
GetRequestChangesNothing ==
    [][\A user \in Users :
         (\/ \E lang \in Langs, c \in ClubIds :
                \/ RequestJoinClub(user, "GET", lang, c)
                \/ \E user_id \in UserIds :
                      \/ ApproveMember(user, "GET", lang, c, user_id)
                      \/ RejectMember(user, "GET", lang, c, user_id)
                      \/ RemoveMember(user, "GET", lang, c, user_id)
                      \/ PromoteToAdmin(user, "GET", lang, c, user_id)
                      \/ RemoveAdmin(user, "GET", lang, c, user_id)
          \/ \E suggestion_id \in SuggestionIds :
                \/ ApproveLocationSuggestion(user, "GET", suggestion_id)
                \/ RejectLocationSuggestion(user, "GET", suggestion_id))
             => UNCHANGED <<club, clubTr, loc, locTr, sug>>]_vars

\* C27: in every state reached by request_join_club, approve_member,
\* reject_member and remove_member, no user is both in the members and in
\* the pending_members of a club.
PendingAndMembersDisjoint ==
    \A c \in ClubIds :
        club[c] # NoClub => club[c].members \cap club[c].pending_members = {}

\* C28: in every state reached by the membership operations, every admin
\* of a club other than its creator is one of its members.
AdminsAreMembers ==
    \A c \in ClubIds :
        club[c] # NoClub
            => club[c].admins \ {club[c].created_by} \subseteq club[c].members

\* C21: when the save of the translation in one language raises, the
\* translation in the other language is still written and stays written,
\* and _save_translations returns without an exception; in both orders,
\* for the club form and for the location form.
TranslationFailuresAreIsolated ==
    [][LET Stored(row, name) ==
               row # NoRow /\ row.name = name /\ row.slug = Slugify(name)
           Failed(row) == row # NoRow /\ row.name = NameLong /\ row.slug = <<>>
       IN
       /\ \A user \in ClubCreators, lang \in Langs, data \in ClubTranslationInputs,
            c \in ClubIds :
           (/\ last'.op = "create_dive_club"
            /\ club[c] = NoClub /\ club'[c] # NoClub
            /\ \A d \in ClubIds \ {c} : club[d] = NoClub
            /\ CreateDiveClub(user, "POST", lang, data))
               => /\ last'.response \in {"302 club_detail", "302 dive_clubs"}
                  /\ (data.name_nl = NameLong /\ data.name_en = NameDuikclubNoord)
                         => /\ Failed(clubTr'[c, "nl"])
                            /\ Stored(clubTr'[c, "en"], NameDuikclubNoord)
                  /\ (data.name_nl = NameDuikclubNoord /\ data.name_en = NameLong)
                         => /\ Stored(clubTr'[c, "nl"], NameDuikclubNoord)
                            /\ Failed(clubTr'[c, "en"])
       /\ \A l \in LocationIds, data \in LocationTranslationInputs :
           (/\ last'.op = "DiveLocationForm._save_translations"
            /\ \A k \in LocationIds \X Langs : locTr[k] = NoRow
            /\ DiveLocationFormSaveTranslations(l, data))
               => /\ last'.response = "returned"
                  /\ (data.name_nl = NameLong /\ data.name_en = NameZeeland)
                         => /\ Failed(locTr'[l, "nl"])
                            /\ Stored(locTr'[l, "en"], NameZeeland)
                  /\ (data.name_nl = NameZeeland /\ data.name_en = NameLong)
                         => /\ Stored(locTr'[l, "nl"], NameZeeland)
                            /\ Failed(locTr'[l, "en"])]_vars

\* C21, its case: create_dive_club has answered with a redirect for a
\* club whose Dutch translation was not saved and whose English one was.
EnglishSavedAfterDutchFailed ==
    /\ last.op = "create_dive_club"
    /\ last.response \in {"302 club_detail", "302 dive_clubs"}
    /\ \E c \in ClubIds :
           /\ clubTr[c, "nl"] # NoRow /\ clubTr[c, "nl"].name = NameLong
           /\ clubTr[c, "nl"].slug = <<>>
           /\ clubTr[c, "en"] # NoRow /\ clubTr[c, "en"].name = NameDuikclubNoord
           /\ clubTr[c, "en"].slug = Slugify(NameDuikclubNoord)

\* C23: a club created in language L with a name whose slug is not empty
\* is reached by club_detail in L with the slug stored for it: the slug is
\* one a URL can carry, the pair of slug and language matches the row of
\* that club alone, and the page is served; a slug without a row in L is
\* answered with the redirect to the list of clubs.
ClubReachableBySlug ==
    /\ \A c \in ClubIds, L \in Langs :
           (/\ club[c] # NoClub
            /\ clubTr[c, L] # NoRow
            /\ Slugify(clubTr[c, L].name) # <<>>)
               => /\ clubTr[c, L].slug # <<>>
                  /\ ClubDetailMatches(clubTr, L, clubTr[c, L].slug) = {c}
                  /\ ClubDetailResponse(clubTr, L, clubTr[c, L].slug)
                         = "200 club_detail"
    /\ \A L \in Langs :
           ClubDetailResponse(clubTr, L, SlugUnknown) = "302 dive_clubs"

\* C24: when an approved suggestion is applied, the slug of the location's
\* translation in the suggestion's target language is the slug of the
\* merged name, or that slug with the first free suffix when another
\* location holds it in that language; the location's rows in the other
\* languages are unchanged.
SlugAfterSuggestionMerge ==
    [][\A user \in Superusers, method \in Methods, suggestion_id \in SuggestionIds :
         (/\ last'.op = "approve_location_suggestion"
          /\ SuggestionExists(suggestion_id)
          /\ ApproveLocationSuggestion(user, method, suggestion_id))
             => LET g    == sug[suggestion_id]
                    l    == g.original_location
                    lang == g.target_language
                    s    == Slugify(locTr'[l, lang].name)
                    held(x) == \E d \in LocationIds \ {l} :
                                   locTr[d, lang] # NoRow /\ locTr[d, lang].slug = x
                    suffixed(k) == s \o <<"-">> \o Digits(k)
                    k    == CHOOSE k \in 1..MaxLocations :
                                /\ ~held(suffixed(k))
                                /\ \A j \in 1..(k - 1) : held(suffixed(j))
                IN  /\ locTr'[l, lang] # NoRow
                    /\ locTr'[l, lang].slug = IF held(s) THEN suffixed(k) ELSE s
                    /\ \A o \in Langs \ {lang} : locTr'[l, o] = locTr[l, o]]_vars

\* C25: for the fields dangers, nicknames, address, parking, sight,
\* max_depth, bottom_type and type_of_water of a location, the getter
\* called for a language without a translation row returns the value of
\* the Dutch row when there is one.
EveryFieldFallsBackToDutch ==
    \A field \in DOMAIN FieldGetters :
        (/\ last.op = FieldGetters[field]
         /\ locTr[last.id, last.lang_code] = NoRow
         /\ locTr[last.id, "nl"] # NoRow)
            => last.value = locTr[last.id, "nl"].text[field]

\* C26: after create_dive_location has accepted a form with a name for
\* the current language L, the new location has a translation row for L
\* with that name and a slug, and is in get_for_current_language() for L.
CreatedLocationIsTranslated ==
    [][\A user \in LocationCreators, lang \in Langs, l \in LocationIds :
         \A data \in LocationFormOf(user, "POST") :
           (/\ last'.op = "create_dive_location"
            /\ loc[l] = NoLocation /\ loc'[l] # NoLocation
            /\ CreateDiveLocation(user, "POST", lang, data))
               => /\ locTr'[l, lang] # NoRow
                  /\ locTr'[l, lang].name =
                         Strip(IF lang = "nl" THEN data.name_nl ELSE data.name_en)
                  /\ locTr'[l, lang].slug # <<>>
                  /\ l \in LocationsForCurrentLanguage(loc', locTr', lang)]_vars

\* C29: once a club has a slug in language L, a request that leaves the
\* club's name in L unchanged leaves that slug unchanged, whatever was
\* done to other clubs before.
SlugStableWhileNameUnchanged ==
    [][\A c \in ClubIds, L \in Langs :
         (/\ clubTr[c, L] # NoRow /\ clubTr'[c, L] # NoRow
          /\ clubTr[c, L].slug # <<>>
          /\ clubTr[c, L].name # <<>>
          /\ clubTr'[c, L].name = clubTr[c, L].name)
             => clubTr'[c, L].slug = clubTr[c, L].slug]_vars

(***************************************************************************)
(* C30. Accounts are inactive until activated. A row that register saves   *)
(* has is_active = False. is_active turns True only in a step of activate  *)
(* whose uid decodes to the primary key of that row and whose token is the *)
(* token made for that row. An activate whose uid finds no row, or whose   *)
(* token is not the one of the row it finds, leaves every row as it was.   *)
(* A register that ends in the error of send_mail has saved its inactive   *)
(* row before, and the row remains.                                        *)
(***************************************************************************)
AccountsInactiveUntilActivated ==
    [][ /\ \A a \in AccountIds :
              /\ (account[a] = NoAccount /\ account'[a] # NoAccount)
                     => /\ last'.op = "register"
                        /\ ~account'[a].is_active
              /\ (/\ account[a] # NoAccount
                  /\ account'[a] # NoAccount
                  /\ ~account[a].is_active
                  /\ account'[a].is_active)
                     => /\ last'.op = "activate"
                        /\ UrlsafeBase64Decode(last'.uidb64) = a
                        /\ last'.token = MakeToken(a, account[a])
        /\ (/\ last'.op = "activate"
            /\ LET uid == UrlsafeBase64Decode(last'.uidb64)
               IN  \/ uid \notin AccountIds
                   \/ account[uid] = NoAccount
                   \/ last'.token # MakeToken(uid, account[uid]))
               => account' = account
        /\ (last'.op = "register" /\ last'.response = "500")
               => \E a \in AccountIds :
                      /\ account[a] = NoAccount
                      /\ account'[a] # NoAccount
                      /\ ~account'[a].is_active
                      /\ \A b \in AccountIds \ {a} : account'[b] = account[b]
      ]_vars

\* A state of C30: activate has just answered the link of one account,
\* which is active, while another account, saved by a register whose mail
\* may have failed, is still inactive.
OneAccountActivated ==
    /\ last.op = "activate"
    /\ last.response = "302 login"
    /\ \E a \in AccountIds :
           /\ account[a] # NoAccount
           /\ account[a].is_active
           /\ UrlsafeBase64Decode(last.uidb64) = a
    /\ \E b \in AccountIds : account[b] # NoAccount /\ ~account[b].is_active

=============================================================================
